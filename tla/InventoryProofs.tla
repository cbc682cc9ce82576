-------------------------- MODULE InventoryProofs --------------------------
(***************************************************************************)
(* Theorems about Inventory: for any number of purchases, holds, sweepers, *)
(* locations, parcels and edits, levels are what holds add up to but where *)
(* a sweep gave back what a hold no longer was, no hold is left in the     *)
(* name of a cart that is gone, goods are neither lost nor doubled,        *)
(* nothing is oversold but on purpose, and what an order has to ship is    *)
(* held for it.                                                            *)
(*                                                                         *)
(* The argument: a step touches one hold, or empties several; what it does *)
(* to the hold it does to the level (the lemmas on AddUp).  A sweep does   *)
(* to the level what it read of the hold: it finds the hold as it read it, *)
(* or the location is in `stale` from then on.                             *)
(*                                                                         *)
(* That makes IndInv, of levels and holds.  BooksInv rests on it and adds  *)
(* shelves, orders and parcels: a parcel moves its units between a shelf   *)
(* and what its order counts, and Covered follows one purchase from its    *)
(* first hold, all in one place, to its last parcel.                       *)
(***************************************************************************)
EXTENDS Inventory, SumsProofs, TLAPS

-----------------------------------------------------------------------------
(* Sums over the holds. *)

\* Sums add up point by point.
LEMMA AddUpAdds ==
    ASSUME NEW f \in [Holds -> Int], NEW g \in [Holds -> Int],
           NEW d \in [Holds -> Int], \A h \in Holds : g[h] = f[h] + d[h]
    PROVE  AddUp(g) = AddUp(f) + AddUp(d)
<1>1. Bought + Slots \in Nat /\ Holds = 1 .. Bought + Slots
  BY SizesAssumption DEF Holds
<1> QED BY <1>1, SumAdds DEF AddUp

\* What happens to one hold happens to the sum.
LEMMA AddUpMoves ==
    ASSUME NEW f \in [Holds -> Int], NEW g \in [Holds -> Int], NEW k \in Holds,
           \A h \in Holds \ {k} : g[h] = f[h]
    PROVE  AddUp(g) = AddUp(f) + g[k] - f[k]
<1>1. Bought + Slots \in Nat /\ Holds = 1 .. Bought + Slots
  BY SizesAssumption DEF Holds
<1> QED BY <1>1, SumMoves DEF AddUp

\* A sum is a whole number, and no less than nothing if nothing in it is.
LEMMA AddUpType ==
    ASSUME NEW f \in [Holds -> Int]
    PROVE  /\ AddUp(f) \in Int
           /\ (\A h \in Holds : f[h] >= 0) => AddUp(f) >= 0
<1>1. Bought + Slots \in Nat /\ Holds = 1 .. Bought + Slots
  BY SizesAssumption DEF Holds
<1> QED BY <1>1, SumType DEF AddUp

-----------------------------------------------------------------------------
(* The invariant. *)

Shape ==
    /\ reserved \in [Locations -> Nat]
    /\ held \in [Holds -> [Locations -> Nat]]
    /\ due \subseteq Unnamed
    /\ stage \in [Purchases -> Stages]
    /\ cart \in [Purchases -> Carts]
    /\ line \in [Purchases -> Nat]
    /\ ordered \in [Purchases -> Seq(Nat)]
    /\ parcel \in [Parcels -> ParcelStates]
    /\ sweep \in [Sweepers -> SweepStates]

\* What has been placed has an order, and a parcel is of such an order.
OrdersStand ==
    /\ \A p \in Purchases :
          stage[p] \in {"placed", "done", "canceled"} => ordered[p] # <<>>
    /\ \A k \in Parcels : parcel[k].state = "packed" =>
          parcel[k].of \in Purchases /\ stage[parcel[k].of] \in {"done", "canceled"}

\* A sweep that has read a hold read it of a purchase.
SweepSees == \A w \in Sweepers : sweep[w].read => sweep[w].of \in Purchases

IndInv == Shape /\ OrdersStand /\ SweepSees /\ HoldsAddUp /\ HoldsNameACart

\* How a step keeps each part of it.

\* Purchases are holds; the others name no line.
LEMMA HoldsSplit ==
    /\ Purchases \subseteq Holds /\ Unnamed \subseteq Holds
    /\ Purchases \cap Unnamed = {}
    /\ Locations # {}
BY SizesAssumption DEF Purchases, Holds, Unnamed

\* A level that follows the one hold a step changes still adds up.
LEMMA LevelFollows ==
    ASSUME Shape, HoldsAddUp, held' \in [Holds -> [Locations -> Nat]],
           NEW h \in Holds, \A g \in Holds \ {h} : held'[g] = held[g],
           stale \subseteq stale',
           \A l \in Locations : l \notin stale' =>
               reserved'[l] = reserved[l] + held'[h][l] - held[h][l]
    PROVE  HoldsAddUp'
<1> SUFFICES ASSUME NEW l \in Locations, l \notin stale' PROVE reserved'[l] = Promised(l)'
  BY DEF HoldsAddUp
<1> DEFINE f == [g \in Holds |-> held[g][l]]
           e == [g \in Holds |-> held'[g][l]]
<1>1. f \in [Holds -> Int] /\ e \in [Holds -> Int] BY DEF Shape
<1>2. \A g \in Holds \ {h} : e[g] = f[g] OBVIOUS
<1>3. AddUp(e) = AddUp(f) + e[h] - f[h]
  <2> HIDE DEF e, f
  <2> QED BY <1>1, <1>2, AddUpMoves
<1>4. e[h] = held'[h][l] /\ f[h] = held[h][l] OBVIOUS
<1>5. reserved[l] = AddUp(f) BY DEF HoldsAddUp, Promised
<1>6. Promised(l)' = AddUp(e) BY DEF Promised
<1> QED BY <1>3, <1>4, <1>5, <1>6

\* No hold is greater than a level it adds up to.
LEMMA LevelAtLeastHold ==
    ASSUME IndInv, NEW h \in Holds, NEW l \in Locations, l \notin stale
    PROVE  reserved[l] >= held[h][l]
<1> DEFINE f == [g \in Holds |-> held[g][l]]
           e == [g \in Holds |-> IF g = h THEN 0 ELSE held[g][l]]
<1>1. f \in [Holds -> Int] /\ e \in [Holds -> Int] BY DEF IndInv, Shape
<1>2. \A g \in Holds \ {h} : e[g] = f[g] OBVIOUS
<1>3. e[h] = 0 /\ f[h] = held[h][l] OBVIOUS
<1>4. \A g \in Holds : e[g] >= 0 BY DEF IndInv, Shape
<1>5. AddUp(e) = AddUp(f) + e[h] - f[h]
  <2> HIDE DEF e, f
  <2> QED BY <1>1, <1>2, AddUpMoves
<1>6. AddUp(e) >= 0 /\ AddUp(e) \in Int /\ AddUp(f) \in Int
  <2> HIDE DEF e, f
  <2> QED BY <1>1, <1>4, AddUpType
<1>7. reserved[l] = AddUp(f) BY DEF IndInv, HoldsAddUp, Promised
<1>8. held[h][l] \in Nat BY DEF IndInv, Shape
<1> HIDE DEF e, f
<1> QED BY <1>3, <1>5, <1>6, <1>7, <1>8

\* `reserve`, and the half of unfulfil_units that holds again.
LEMMA HoldKeeps ==
    ASSUME Shape, HoldsAddUp, NEW h \in Holds, NEW l \in Locations, NEW q \in Nat,
           Hold(h, l, q),
           UNCHANGED stale
    PROVE  /\ reserved' \in [Locations -> Nat]
           /\ held' \in [Holds -> [Locations -> Nat]]
           /\ \A g \in Holds \ {h} : held'[g] = held[g]
           /\ HoldsAddUp'
<1>1. reserved' \in [Locations -> Nat] BY DEF Hold, Shape
<1>2. held' \in [Holds -> [Locations -> Nat]] BY DEF Hold, Shape
<1>3. \A g \in Holds \ {h} : held'[g] = held[g] BY DEF Hold, Shape
<1>4. \A k \in Locations : reserved'[k] = reserved[k] + held'[h][k] - held[h][k]
  BY DEF Hold, Shape
<1> QED BY <1>1, <1>2, <1>3, <1>4, LevelFollows

\* `release_lines`: what one line holds goes, level and all.
LEMMA LetGoKeeps ==
    ASSUME Shape, HoldsAddUp, NEW h \in Holds, LetGo(h),
           UNCHANGED stale
    PROVE  /\ reserved' \in [Locations -> Nat]
           /\ held' \in [Holds -> [Locations -> Nat]]
           /\ \A g \in Holds \ {h} : held'[g] = held[g]
           /\ held'[h] = Nowhere
           /\ HoldsAddUp'
<1>1. reserved' \in [Locations -> Nat] BY DEF LetGo, Shape
<1>2. held' \in [Holds -> [Locations -> Nat]] BY DEF LetGo, Shape, Nowhere
<1>3. \A g \in Holds \ {h} : held'[g] = held[g] BY DEF LetGo, Shape
<1>4. held'[h] = Nowhere BY DEF LetGo, Shape
<1>5. \A k \in Locations : reserved'[k] = reserved[k] + held'[h][k] - held[h][k]
  BY <1>4 DEF LetGo, Shape, Nowhere
<1> QED BY <1>1, <1>2, <1>3, <1>4, <1>5, LevelFollows

\* A step that moves no hold and no level, and no stage back.
LEMMA NothingHeld ==
    ASSUME IndInv, UNCHANGED <<reserved, held, sweep, stale>>, Shape', OrdersStand',
           \A p \in Purchases : stage[p] # "new" => stage'[p] # "new",
           \A p \in Purchases : stage'[p] = "held" /\ cart'[p] = "gone" =>
                                stage[p] = "held" /\ cart[p] = "gone"
    PROVE  IndInv'
<1>1. HoldsAddUp' BY DEF IndInv, HoldsAddUp, Promised
<1>2. HoldsNameACart' BY DEF IndInv, HoldsNameACart
<1>3. SweepSees' BY DEF IndInv, SweepSees
<1> QED BY <1>1, <1>2, <1>3 DEF IndInv

-----------------------------------------------------------------------------
(* The steps, one by one. *)

LEMMA InitKeeps == Init => IndInv
<1> SUFFICES ASSUME Init PROVE IndInv
  OBVIOUS
<1>1. Shape
  <2>1. NoParcel \in ParcelStates BY HoldsSplit DEF NoParcel, ParcelStates
  <2>2. NoSweep \in SweepStates BY DEF NoSweep, SweepStates, Nowhere
  <2> QED BY <2>1, <2>2 DEF Init, Shape, Nowhere, Stages, Carts
<1>2. OrdersStand BY DEF Init, OrdersStand, NoParcel
<1>3. SweepSees BY DEF Init, SweepSees, NoSweep
<1>4. HoldsAddUp
  <2> SUFFICES ASSUME NEW l \in Locations PROVE reserved[l] = Promised(l)
    BY DEF HoldsAddUp
  <2> DEFINE f == [h \in Holds |-> held[h][l]]
  <2>1. f \in [Holds -> Int] /\ \A h \in Holds : f[h] = 0
    BY DEF Init, Nowhere
  <2>2. AddUp(f) = AddUp(f) + AddUp(f)
    <3> HIDE DEF f
    <3> QED BY <2>1, AddUpAdds
  <2>3. AddUp(f) \in Int
    <3> HIDE DEF f
    <3> QED BY <2>1, AddUpType
  <2>4. Promised(l) = AddUp(f) BY DEF Promised
  <2>5. reserved[l] = 0 BY DEF Init, Nowhere
  <2>6. AddUp(f) = 0
    <3> DEFINE a == AddUp(f)
    <3>1. a = a + a /\ a \in Int BY <2>2, <2>3
    <3> HIDE DEF a
    <3>2. a = 0 BY <3>1
    <3> QED BY <3>2 DEF a
  <2> HIDE DEF f
  <2> QED BY <2>4, <2>5, <2>6
<1>5. HoldsNameACart BY DEF Init, HoldsNameACart
<1> QED BY <1>1, <1>2, <1>3, <1>4, <1>5 DEF IndInv

LEMMA OpenCartKeeps ==
    ASSUME IndInv, NEW p \in Purchases, NEW n \in Quantities, OpenCart(p, n)
    PROVE  IndInv'
<1>1. Shape' BY SizesAssumption DEF OpenCart, IndInv, Shape, Carts, level, orders
<1>2. OrdersStand' BY DEF OpenCart, IndInv, OrdersStand, orders
<1>3. \A r \in Purchases : cart'[r] = "gone" => cart[r] = "gone"
  BY DEF OpenCart, IndInv, Shape
<1> QED BY <1>1, <1>2, <1>3, NothingHeld DEF OpenCart, level, ghosts

LEMMA ReserveKeeps ==
    ASSUME IndInv, NEW p \in Purchases, NEW l \in Locations, Reserve(p, l)
    PROVE  IndInv'
<1>1. line[p] * Required \in Nat BY SizesAssumption DEF IndInv, Shape
<1>2. /\ reserved' \in [Locations -> Nat]
      /\ held' \in [Holds -> [Locations -> Nat]]
      /\ \A g \in Holds \ {p} : held'[g] = held[g]
      /\ HoldsAddUp'
  BY <1>1, HoldsSplit, HoldKeeps DEF Reserve, IndInv, ghosts
<1>3. Shape' BY <1>2 DEF Reserve, IndInv, Shape, Stages, orders
<1>4. \A r \in Purchases : r # p => stage'[r] = stage[r]
  BY DEF Reserve, IndInv, Shape
<1>5. stage[p] = "new" /\ stage'[p] = "held" BY DEF Reserve, IndInv, Shape
<1>6. OrdersStand' BY <1>4, <1>5 DEF Reserve, IndInv, OrdersStand, orders
<1>7. SweepSees' BY DEF Reserve, IndInv, SweepSees
<1>8. HoldsNameACart'
  BY <1>2, <1>4, HoldsSplit DEF Reserve, IndInv, HoldsNameACart
<1> QED BY <1>2, <1>3, <1>6, <1>7, <1>8 DEF IndInv

LEMMA ReserveRenewalKeeps ==
    ASSUME IndInv, NEW p \in Purchases, NEW l \in Locations, NEW n \in Quantities,
           ReserveRenewal(p, l, n)
    PROVE  IndInv'
<1>1. n \in Nat /\ n * Required \in Nat BY SizesAssumption
<1>2. /\ reserved' \in [Locations -> Nat]
      /\ held' \in [Holds -> [Locations -> Nat]]
      /\ \A g \in Holds \ {p} : held'[g] = held[g]
      /\ HoldsAddUp'
  BY <1>1, HoldsSplit, HoldKeeps DEF ReserveRenewal, IndInv, ghosts
<1>3. Shape' BY <1>1, <1>2 DEF ReserveRenewal, IndInv, Shape, Stages, orders
<1>4. \A r \in Purchases : r # p => stage'[r] = stage[r]
  BY DEF ReserveRenewal, IndInv, Shape
<1>5. stage[p] = "new" /\ stage'[p] = "held" BY DEF ReserveRenewal, IndInv, Shape
<1>6. OrdersStand' BY <1>4, <1>5 DEF ReserveRenewal, IndInv, OrdersStand, orders
<1>7. SweepSees' BY DEF ReserveRenewal, IndInv, SweepSees
<1>8. HoldsNameACart'
  BY <1>2, <1>4, HoldsSplit DEF ReserveRenewal, IndInv, HoldsNameACart
<1> QED BY <1>2, <1>3, <1>6, <1>7, <1>8 DEF IndInv

LEMMA DeliverKeeps ==
    ASSUME IndInv, NEW p \in Purchases, NEW l \in Locations, NEW n \in Quantities,
           NEW h \in Unnamed, Deliver(p, l, n, h)
    PROVE  IndInv'
<1>1. n \in Nat /\ n * Required \in Nat BY SizesAssumption
<1>2. /\ reserved' \in [Locations -> Nat]
      /\ held' \in [Holds -> [Locations -> Nat]]
      /\ \A g \in Holds \ {h} : held'[g] = held[g]
      /\ HoldsAddUp'
  BY <1>1, HoldsSplit, HoldKeeps DEF Deliver, IndInv
<1>3. Shape' BY <1>1, <1>2 DEF Deliver, IndInv, Shape, Stages
<1>4. \A r \in Purchases : r # p => stage'[r] = stage[r] /\ ordered'[r] = ordered[r]
  BY DEF Deliver, IndInv, Shape
<1>5. stage[p] = "new" /\ stage'[p] = "done" /\ ordered'[p] # <<>>
  BY DEF Deliver, IndInv, Shape
<1>6. OrdersStand' BY <1>4, <1>5 DEF Deliver, IndInv, OrdersStand
<1>7. \A r \in Purchases : held'[r] = held[r] BY <1>2, HoldsSplit
<1>8. SweepSees' BY DEF Deliver, IndInv, SweepSees
<1>9. HoldsNameACart'
  BY <1>4, <1>5, <1>7 DEF Deliver, IndInv, HoldsNameACart
<1> QED BY <1>2, <1>3, <1>6, <1>8, <1>9 DEF IndInv

LEMMA ChangeCartKeeps ==
    ASSUME IndInv, NEW p \in Purchases, NEW n \in Quantities, ChangeCart(p, n)
    PROVE  IndInv'
<1>1. Shape' BY SizesAssumption DEF ChangeCart, IndInv, Shape, level, orders
<1>2. OrdersStand' BY DEF ChangeCart, IndInv, OrdersStand, orders
<1> QED BY <1>1, <1>2, NothingHeld DEF ChangeCart, level

LEMMA PlaceKeeps ==
    ASSUME IndInv, NEW p \in Purchases, Place(p)
    PROVE  IndInv'
<1>1. line[p] \in Nat BY DEF IndInv, Shape
<1>2. Shape' BY <1>1 DEF Place, IndInv, Shape, Stages, level
<1>3. \A r \in Purchases : r # p => stage'[r] = stage[r] /\ ordered'[r] = ordered[r]
  BY DEF Place, IndInv, Shape
<1>4. stage[p] = "held" /\ stage'[p] = "placed" /\ ordered'[p] # <<>>
  BY DEF Place, IndInv, Shape
<1>5. OrdersStand' BY <1>3, <1>4 DEF Place, IndInv, OrdersStand
<1> QED BY <1>2, <1>3, <1>4, <1>5, NothingHeld DEF Place, level, ghosts

LEMMA CompleteKeeps ==
    ASSUME IndInv, NEW p \in Purchases, Complete(p)
    PROVE  IndInv'
<1>1. Shape' BY DEF Complete, IndInv, Shape, Stages, Carts, level, orders
<1>2. \A r \in Purchases : r # p => stage'[r] = stage[r] /\ cart'[r] = cart[r]
  BY DEF Complete, IndInv, Shape
<1>3. stage[p] = "placed" /\ stage'[p] = "done" BY DEF Complete, IndInv, Shape
<1>4. OrdersStand' BY <1>2, <1>3 DEF Complete, IndInv, OrdersStand, orders
<1> QED BY <1>1, <1>2, <1>3, <1>4, NothingHeld DEF Complete, level, ghosts

LEMMA UndoKeeps ==
    ASSUME IndInv, NEW p \in Purchases, Undo(p)
    PROVE  IndInv'
<1>1. /\ reserved' \in [Locations -> Nat]
      /\ held' \in [Holds -> [Locations -> Nat]]
      /\ \A g \in Holds \ {p} : held'[g] = held[g]
      /\ held'[p] = Nowhere
      /\ HoldsAddUp'
  BY HoldsSplit, LetGoKeeps DEF Undo, IndInv, ghosts
<1>2. Shape' BY <1>1 DEF Undo, IndInv, Shape, Stages, orders
<1>3. \A r \in Purchases : r # p => stage'[r] = stage[r] /\ held'[r] = held[r]
  BY <1>1, HoldsSplit DEF Undo, IndInv, Shape
<1>4. stage[p] \in {"held", "placed"} /\ stage'[p] = "undone"
  BY DEF Undo, IndInv, Shape
<1>5. OrdersStand' BY <1>3, <1>4 DEF Undo, IndInv, OrdersStand, orders
<1>6. SweepSees' BY DEF Undo, IndInv, SweepSees
<1>7. HoldsNameACart' BY <1>3, <1>4 DEF Undo, IndInv, HoldsNameACart
<1> QED BY <1>1, <1>2, <1>5, <1>6, <1>7 DEF IndInv

LEMMA SweepPickKeeps ==
    ASSUME IndInv, NEW w \in Sweepers, NEW p \in Purchases, SweepPick(w, p)
    PROVE  IndInv'
<1>1. Shape' BY DEF SweepPick, IndInv, Shape, SweepStates, level, orders
<1>2. OrdersStand' BY DEF SweepPick, IndInv, OrdersStand, orders
<1>3. \A v \in Sweepers : sweep'[v].read => sweep[v].read /\ sweep'[v] = sweep[v]
  BY DEF SweepPick, IndInv, Shape, SweepStates, NoSweep
<1>4. SweepSees' BY <1>3 DEF SweepPick, IndInv, SweepSees
<1>5. HoldsAddUp' BY DEF SweepPick, IndInv, HoldsAddUp, Promised, level, ghosts
<1>6. HoldsNameACart' BY DEF SweepPick, IndInv, HoldsNameACart
<1> QED BY <1>1, <1>2, <1>4, <1>5, <1>6 DEF IndInv

LEMMA SweepReadKeeps ==
    ASSUME IndInv, NEW w \in Sweepers, SweepRead(w)
    PROVE  IndInv'
<1>1. sweep[w].of \in Purchases
  BY DEF SweepRead, IndInv, Shape, SweepStates
<1>2. InTheCartsName(sweep[w].of) \in [Locations -> Nat]
  BY <1>1, HoldsSplit DEF InTheCartsName, IndInv, Shape, Nowhere
<1>3. sweep' = [sweep EXCEPT ![w] = [of |-> sweep[w].of, read |-> TRUE,
                                     holds |-> InTheCartsName(sweep[w].of),
                                     replaced |-> FALSE]]
  BY DEF SweepRead
<1>4. Shape'
  <2> DEFINE seen == [of |-> sweep[w].of, read |-> TRUE,
                      holds |-> InTheCartsName(sweep[w].of), replaced |-> FALSE]
  <2>1. UNCHANGED <<reserved, held, due, stage, cart, line, ordered, parcel>>
    BY DEF SweepRead, level, orders
  <2>2. sweep \in [Sweepers -> SweepStates] BY DEF IndInv, Shape
  <2>3. seen \in SweepStates BY <1>1, <1>2 DEF SweepStates
  <2>4. sweep' = [sweep EXCEPT ![w] = seen] BY <1>3
  <2> HIDE DEF seen
  <2>5. sweep' \in [Sweepers -> SweepStates] BY <2>2, <2>3, <2>4
  <2> QED BY <2>1, <2>5 DEF IndInv, Shape
<1>5. OrdersStand' BY DEF SweepRead, IndInv, OrdersStand, orders
<1>6. SweepSees'
  <2>1. sweep'[w].of = sweep[w].of BY <1>3 DEF IndInv, Shape
  <2>2. \A v \in Sweepers \ {w} : sweep'[v] = sweep[v] BY <1>3 DEF IndInv, Shape
  <2> QED BY <1>1, <2>1, <2>2 DEF IndInv, SweepSees
<1>7. HoldsAddUp' BY DEF SweepRead, IndInv, HoldsAddUp, Promised, level, ghosts
<1>8. HoldsNameACart' BY DEF SweepRead, IndInv, HoldsNameACart, level
<1> QED BY <1>4, <1>5, <1>6, <1>7, <1>8 DEF IndInv

LEMMA SweepFinishKeeps ==
    ASSUME IndInv, NEW w \in Sweepers, SweepFinish(w)
    PROVE  IndInv'
<1> DEFINE p == sweep[w].of
           holds == sweep[w].holds
<1>1. /\ sweep[w].read
      /\ AllThere(w)
      /\ NothingLeft(w)
      /\ LevelsAllow(w)
      /\ held' = [held EXCEPT ![p] = [l \in Locations |->
                    IF holds[l] > 0 THEN 0 ELSE held[p][l]]]
      /\ reserved' = [l \in Locations |-> reserved[l] - holds[l]]
      /\ cart' = [cart EXCEPT ![p] = "gone"]
      /\ sweep' = [sweep EXCEPT ![w] = NoSweep]
      /\ stale' = stale \cup {l \in Locations :
                                holds[l] > 0 /\ held[p][l] \notin {0, holds[l]}}
      /\ UNCHANGED <<due, stage, line, orders, parcel>>
  BY DEF SweepFinish
<1>2. p \in Purchases /\ p \in Holds /\ holds \in [Locations -> Nat]
  BY <1>1, HoldsSplit DEF IndInv, Shape, SweepSees, SweepStates
<1>3. held' \in [Holds -> [Locations -> Nat]] BY <1>1, <1>2 DEF IndInv, Shape
<1>4. \A g \in Holds \ {p} : held'[g] = held[g] BY <1>1 DEF IndInv, Shape
<1>5. held'[p] = [l \in Locations |-> IF holds[l] > 0 THEN 0 ELSE held[p][l]]
  BY <1>1, <1>2 DEF IndInv, Shape
<1>6. \A l \in Locations : holds[l] > 0 /\ l \notin stale' => held[p][l] = holds[l]
  <2>1. \A l \in Locations : holds[l] > 0 => held[p][l] > 0 BY <1>1 DEF AllThere
  <2> QED BY <1>1, <2>1
<1>7. \A l \in Locations : l \notin stale' =>
         reserved'[l] = reserved[l] + held'[p][l] - held[p][l]
  <2> SUFFICES ASSUME NEW l \in Locations, l \notin stale'
               PROVE  reserved'[l] = reserved[l] + held'[p][l] - held[p][l]
    OBVIOUS
  <2>1. reserved[l] \in Int /\ held[p][l] \in Nat /\ holds[l] \in Nat
    BY <1>2 DEF IndInv, Shape
  <2>2. reserved'[l] = reserved[l] - holds[l] BY <1>1
  <2>3. held'[p][l] = IF holds[l] > 0 THEN 0 ELSE held[p][l] BY <1>5
  <2> HIDE DEF p, holds
  <2> QED BY <1>6, <2>1, <2>2, <2>3
<1>8. HoldsAddUp'
  <2>1. stale \subseteq stale' BY <1>1
  <2> HIDE DEF p
  <2> QED BY <1>2, <1>3, <1>4, <1>7, <2>1, LevelFollows DEF IndInv
<1>9. Shape'
  <2>1. NoSweep \in SweepStates BY DEF NoSweep, SweepStates, Nowhere
  <2>2. reserved' \in [Locations -> Nat]
    <3>1. \A l \in Locations : reserved[l] >= holds[l] BY <1>1 DEF LevelsAllow
    <3> HIDE DEF p, holds
    <3> QED BY <1>1, <1>2, <3>1 DEF IndInv, Shape
  <2>3. cart' \in [Purchases -> Carts] BY <1>1 DEF IndInv, Shape, Carts
  <2>4. sweep' \in [Sweepers -> SweepStates] BY <1>1, <2>1 DEF IndInv, Shape
  <2> QED BY <1>1, <1>3, <2>2, <2>3, <2>4 DEF IndInv, Shape, orders
<1>10. OrdersStand' BY <1>1 DEF IndInv, OrdersStand, orders
<1>11. SweepSees' BY <1>1 DEF IndInv, SweepSees, Shape, NoSweep
<1>12. HoldsNameACart'
  <2> SUFFICES ASSUME NEW q \in Purchases, stage[q] = "held", cart'[q] = "gone"
               PROVE  held'[q] = Nowhere
    BY <1>1 DEF HoldsNameACart
  <2>1. CASE q # p
    <3>1. cart[q] = "gone" BY <1>1, <2>1 DEF IndInv, Shape
    <3>2. held'[q] = held[q] BY <1>4, <2>1, HoldsSplit
    <3> QED BY <3>1, <3>2 DEF IndInv, HoldsNameACart
  <2>2. CASE q = p
    <3>1. \A l \in Locations : held[p][l] > 0 => holds[l] > 0
      BY <1>1, <2>2 DEF NothingLeft, InTheCartsName
    <3>2. \A l \in Locations : held[p][l] \in Nat BY <1>2 DEF IndInv, Shape
    <3>3. \A l \in Locations : held'[p][l] = 0
      BY <1>5, <3>1, <3>2
    <3> QED BY <1>5, <2>2, <3>3 DEF Nowhere
  <2> QED BY <2>1, <2>2
<1> QED BY <1>8, <1>9, <1>10, <1>11, <1>12 DEF IndInv

LEMMA SweepFailsKeeps ==
    ASSUME IndInv, NEW w \in Sweepers, SweepFails(w)
    PROVE  IndInv'
<1>1. Shape'
  <2>1. NoSweep \in SweepStates BY DEF NoSweep, SweepStates, Nowhere
  <2> QED BY <2>1 DEF SweepFails, IndInv, Shape, level, orders
<1>2. OrdersStand' BY DEF SweepFails, IndInv, OrdersStand, orders
<1>3. \A v \in Sweepers : sweep'[v].read => sweep'[v] = sweep[v]
  BY DEF SweepFails, IndInv, Shape, NoSweep
<1>4. SweepSees' BY <1>3 DEF SweepFails, IndInv, SweepSees
<1>5. HoldsAddUp' BY DEF SweepFails, IndInv, HoldsAddUp, Promised, level, ghosts
<1>6. HoldsNameACart' BY DEF SweepFails, IndInv, HoldsNameACart, level
<1> QED BY <1>1, <1>2, <1>4, <1>5, <1>6 DEF IndInv

\* A step that changes nothing but holds and levels, and those of no purchase,
\* or only by emptying one no sweep has read.
LEMMA OnlyHolds ==
    ASSUME IndInv, UNCHANGED <<stage, cart, line, ordered, parcel, sweep, stale>>,
           due' \subseteq Unnamed,
           reserved' \in [Locations -> Nat], held' \in [Holds -> [Locations -> Nat]],
           HoldsAddUp',
           \A p \in Purchases, l \in Locations : held'[p][l] \in {0, held[p][l]}
    PROVE  IndInv'
<1>1. Shape' BY DEF IndInv, Shape
<1>2. OrdersStand' BY DEF IndInv, OrdersStand
<1>3. SweepSees' BY DEF IndInv, SweepSees
<1>4. HoldsNameACart'
  <2> SUFFICES ASSUME NEW p \in Purchases, stage[p] = "held", cart[p] = "gone"
               PROVE  held'[p] = Nowhere
    BY DEF HoldsNameACart
  <2>1. held[p] = Nowhere BY DEF IndInv, HoldsNameACart
  <2>2. \A l \in Locations : held'[p][l] = 0 BY <2>1 DEF Nowhere
  <2>3. held'[p] \in [Locations -> Nat] BY HoldsSplit
  <2> QED BY <2>2, <2>3 DEF Nowhere
<1> QED BY <1>1, <1>2, <1>3, <1>4 DEF IndInv

LEMMA HandReserveKeeps ==
    ASSUME IndInv, NEW h \in Unnamed, NEW l \in Locations, NEW q \in Quantities,
           HandReserve(h, l, q)
    PROVE  IndInv'
<1>1. q \in Nat BY SizesAssumption
<1>2. /\ reserved' \in [Locations -> Nat]
      /\ held' \in [Holds -> [Locations -> Nat]]
      /\ \A g \in Holds \ {h} : held'[g] = held[g]
      /\ HoldsAddUp'
  BY <1>1, HoldsSplit, HoldKeeps DEF HandReserve, IndInv
<1>3. due' \subseteq Unnamed BY DEF HandReserve, IndInv, Shape
<1>4. \A p \in Purchases, k \in Locations : held'[p][k] \in {0, held[p][k]}
  BY <1>2, HoldsSplit
<1> QED BY <1>2, <1>3, <1>4, OnlyHolds DEF HandReserve, orders

LEMMA HandReleaseKeeps ==
    ASSUME IndInv, NEW h \in Holds, NEW l \in Locations, HandRelease(h, l)
    PROVE  IndInv'
<1>1. reserved' \in [Locations -> Nat] BY DEF HandRelease, IndInv, Shape
<1>2. held' \in [Holds -> [Locations -> Nat]] BY DEF HandRelease, IndInv, Shape
<1>3. \A g \in Holds \ {h} : held'[g] = held[g] BY DEF HandRelease, IndInv, Shape
<1>4. \A k \in Locations : reserved'[k] = reserved[k] + held'[h][k] - held[h][k]
  BY DEF HandRelease, IndInv, Shape
<1>5. HoldsAddUp' BY <1>2, <1>3, <1>4, LevelFollows DEF HandRelease, IndInv
<1>6. \A k \in Locations : held'[h][k] \in {0, held[h][k]}
  BY DEF HandRelease, IndInv, Shape
<1>7. due' \subseteq Unnamed BY DEF HandRelease, IndInv, Shape
<1> QED BY <1>1, <1>2, <1>3, <1>5, <1>6, <1>7, HoldsSplit, OnlyHolds
         DEF HandRelease, orders

LEMMA HandFulfilKeeps ==
    ASSUME IndInv, NEW h \in Holds, NEW l \in Locations, HandFulfil(h, l)
    PROVE  IndInv'
<1>1. reserved' \in [Locations -> Nat] BY DEF HandFulfil, IndInv, Shape
<1>2. held' \in [Holds -> [Locations -> Nat]] BY DEF HandFulfil, IndInv, Shape
<1>3. \A g \in Holds \ {h} : held'[g] = held[g] BY DEF HandFulfil, IndInv, Shape
<1>4. \A k \in Locations : reserved'[k] = reserved[k] + held'[h][k] - held[h][k]
  BY DEF HandFulfil, IndInv, Shape
<1>5. HoldsAddUp' BY <1>2, <1>3, <1>4, LevelFollows DEF HandFulfil, IndInv
<1>6. \A k \in Locations : held'[h][k] \in {0, held[h][k]}
  BY DEF HandFulfil, IndInv, Shape
<1>7. due' \subseteq Unnamed BY DEF HandFulfil, IndInv, Shape
<1> QED BY <1>1, <1>2, <1>3, <1>5, <1>6, <1>7, HoldsSplit, OnlyHolds
         DEF HandFulfil, orders

LEMMA ExpireKeeps ==
    ASSUME IndInv, Expire
    PROVE  IndInv'
<1>1. \A l \in Locations : GiveBack(due)[l]
        = AddUp([h \in Holds |-> IF h \in due THEN held[h][l] ELSE 0])
  BY DEF GiveBack
<1>2. \A l \in Locations : GiveBack(due)[l] \in Int
  <2> SUFFICES ASSUME NEW l \in Locations PROVE GiveBack(due)[l] \in Int
    OBVIOUS
  <2> DEFINE b == [h \in Holds |-> IF h \in due THEN held[h][l] ELSE 0]
  <2>1. b \in [Holds -> Int] BY DEF IndInv, Shape
  <2>2. AddUp(b) \in Int
    <3> HIDE DEF b
    <3> QED BY <2>1, AddUpType
  <2> QED BY <1>1, <2>2
<1>3. reserved' \in [Locations -> Nat] BY <1>2 DEF Expire, IndInv, Shape
<1>4. held' \in [Holds -> [Locations -> Nat]] BY DEF Expire, IndInv, Shape, Nowhere
<1>5. HoldsAddUp'
  <2> SUFFICES ASSUME NEW l \in Locations, l \notin stale
               PROVE  reserved'[l] = Promised(l)'
    BY DEF HoldsAddUp, Expire, ghosts
  <2> DEFINE f == [h \in Holds |-> held[h][l]]
             b == [h \in Holds |-> IF h \in due THEN held[h][l] ELSE 0]
             e == [h \in Holds |-> held'[h][l]]
  <2>1. f \in [Holds -> Int] /\ b \in [Holds -> Int] /\ e \in [Holds -> Int]
    BY <1>4 DEF IndInv, Shape
  <2>2. \A h \in Holds : f[h] = e[h] + b[h]
    BY DEF Expire, IndInv, Shape, Nowhere
  <2>3. AddUp(f) = AddUp(e) + AddUp(b)
    <3> HIDE DEF f, b, e
    <3> QED BY <2>1, <2>2, AddUpAdds
  <2>4. reserved[l] = AddUp(f) BY DEF IndInv, HoldsAddUp, Promised
  <2>5. reserved'[l] = reserved[l] - AddUp(b) BY <1>1 DEF Expire
  <2>6. Promised(l)' = AddUp(e) BY DEF Promised
  <2>7. AddUp(e) \in Int /\ AddUp(b) \in Int
    <3> HIDE DEF f, b, e
    <3> QED BY <2>1, AddUpType
  <2> HIDE DEF f, b, e
  <2> QED BY <2>3, <2>4, <2>5, <2>6, <2>7
<1>6. \A p \in Purchases : held'[p] = held[p]
  BY HoldsSplit DEF Expire, IndInv, Shape
<1>7. \A p \in Purchases, l \in Locations : held'[p][l] \in {0, held[p][l]}
  BY <1>6
<1> QED BY <1>3, <1>4, <1>5, <1>7, OnlyHolds DEF Expire, orders, ghosts

\* What is done to the hold of an order.
LEMMA OrderMoves ==
    ASSUME IndInv, NEW p \in Purchases, stage[p] \in {"done", "canceled"},
           UNCHANGED cart, Shape', OrdersStand', SweepSees', HoldsAddUp',
           \A g \in Holds \ {p} : held'[g] = held[g],
           \A r \in Purchases : r # p => stage'[r] = stage[r],
           stage'[p] \in {"done", "canceled"}
    PROVE  IndInv'
<1>1. \A r \in Purchases : r # p => held'[r] = held[r] BY HoldsSplit
<1>2. HoldsNameACart' BY <1>1 DEF IndInv, HoldsNameACart
<1> QED BY <1>2 DEF IndInv

LEMMA EditKeeps ==
    ASSUME IndInv, NEW p \in Purchases, NEW to \in Quantities, Edit(p, to)
    PROVE  IndInv'
<1> DEFINE from == ordered[p][Version(p)]
           row == [l \in Locations |-> Rescaled(held[p][l], from, to)]
<1>1. /\ stage[p] = "done"
      /\ from > 0
      /\ held' = [held EXCEPT ![p] = row]
      /\ reserved' = [l \in Locations |->
           LET new == reserved[l] - held[p][l] + Rescaled(held[p][l], from, to)
           IN  IF new < 0 THEN 0 ELSE new]
      /\ ordered' = [ordered EXCEPT ![p] = Append(@, to)]
      /\ UNCHANGED <<due, stage, cart, line, parcel, sweep, stale>>
  BY DEF Edit, ghosts
<1>2. to \in Nat BY SizesAssumption
<1>3. from \in Nat \ {0}
  <2>1. ordered[p] \in Seq(Nat) /\ ordered[p] # <<>>
    BY <1>1 DEF IndInv, Shape, OrdersStand
  <2>2. Version(p) \in 1 .. Len(ordered[p]) BY <2>1 DEF Version
  <2> QED BY <1>1, <2>1, <2>2
<1>4. \A q \in Nat : Rescaled(q, from, to) \in Nat
  <2> HIDE DEF from
  <2>1. \A q \in Nat : q \div from \in Nat BY <1>3
  <2>2. \A a \in Nat : a * to \in Nat BY <1>2
  <2> QED BY <2>1, <2>2 DEF Rescaled
<1>5. row \in [Locations -> Nat]
  <2>1. \A l \in Locations : held[p][l] \in Nat BY HoldsSplit DEF IndInv, Shape
  <2> HIDE DEF from
  <2> QED BY <1>4, <2>1
<1> HIDE DEF row, from
<1>6. held' \in [Holds -> [Locations -> Nat]] BY <1>1, <1>5 DEF IndInv, Shape
<1>7. \A g \in Holds \ {p} : held'[g] = held[g] BY <1>1 DEF IndInv, Shape
<1>8. held'[p] = row BY <1>1, HoldsSplit DEF IndInv, Shape
<1>9. \A l \in Locations : l \notin stale => reserved[l] >= held[p][l]
  BY LevelAtLeastHold, HoldsSplit
<1>10. \A l \in Locations : l \notin stale =>
          reserved'[l] = reserved[l] + held'[p][l] - held[p][l]
  <2> SUFFICES ASSUME NEW l \in Locations, l \notin stale
               PROVE  reserved'[l] = reserved[l] + held'[p][l] - held[p][l]
    OBVIOUS
  <2>1. reserved[l] \in Nat /\ held[p][l] \in Nat /\ reserved[l] >= held[p][l]
    BY <1>9, HoldsSplit DEF IndInv, Shape
  <2>2. row[l] = Rescaled(held[p][l], from, to) /\ row[l] \in Nat BY <1>5 DEF row
  <2>3. reserved'[l] = IF reserved[l] - held[p][l] + row[l] < 0 THEN 0
                       ELSE reserved[l] - held[p][l] + row[l]
    BY <1>1, <2>2
  <2> QED BY <1>8, <2>1, <2>2, <2>3
<1>11. HoldsAddUp' BY <1>1, <1>6, <1>7, <1>10, HoldsSplit, LevelFollows DEF IndInv
<1>12. Shape'
  <2>1. reserved' \in [Locations -> Nat]
    <3>1. \A l \in Locations : held[p][l] \in Nat /\ reserved[l] \in Int
      BY HoldsSplit DEF IndInv, Shape
    <3>2. \A l \in Locations : Rescaled(held[p][l], from, to) \in Nat BY <1>4, <3>1
    <3> QED BY <1>1, <3>1, <3>2
  <2>2. ordered' \in [Purchases -> Seq(Nat)] BY <1>1, <1>2 DEF IndInv, Shape
  <2> QED BY <1>1, <1>6, <2>1, <2>2 DEF IndInv, Shape
<1>13. OrdersStand'
  <2>1. ASSUME NEW r \in Purchases, ordered[r] # <<>> PROVE ordered'[r] # <<>>
    <3>1. ordered[r] \in Seq(Nat) /\ ordered \in [Purchases -> Seq(Nat)]
      BY DEF IndInv, Shape
    <3>2. ordered'[r] = IF r = p THEN Append(ordered[r], to) ELSE ordered[r]
      BY <1>1, <3>1
    <3>3. Append(ordered[r], to) # <<>>
      <4> DEFINE s == ordered[r]
      <4>1. s \in Seq(Nat) BY <3>1
      <4> HIDE DEF s
      <4>2. Len(Append(s, to)) = Len(s) + 1 /\ Len(s) \in Nat BY <1>2, <4>1
      <4>3. Len(Append(s, to)) # 0 BY <4>2
      <4>4. Len(<<>>) = 0 OBVIOUS
      <4>5. Append(s, to) # <<>> BY Zenon, <4>3, <4>4
      <4> QED BY <4>5 DEF s
    <3> QED BY <2>1, <3>2, <3>3
  <2> QED BY <1>1, <2>1 DEF IndInv, OrdersStand
<1>14. SweepSees' BY <1>1 DEF IndInv, SweepSees
<1> QED BY <1>1, <1>7, <1>11, <1>12, <1>13, <1>14, OrderMoves

LEMMA RemoveKeeps ==
    ASSUME IndInv, NEW p \in Purchases, Remove(p)
    PROVE  IndInv'
<1>1. /\ reserved' \in [Locations -> Nat]
      /\ held' \in [Holds -> [Locations -> Nat]]
      /\ \A g \in Holds \ {p} : held'[g] = held[g]
      /\ HoldsAddUp'
  BY HoldsSplit, LetGoKeeps DEF Remove, IndInv, ghosts
<1>2. ordered' \in [Purchases -> Seq(Nat)]
  <2>1. ordered \in [Purchases -> Seq(Nat)] /\ ordered[p] \in Seq(Nat)
    BY DEF IndInv, Shape
  <2>2. Append(ordered[p], 0) \in Seq(Nat) BY <2>1
  <2>3. ordered' = [ordered EXCEPT ![p] = Append(ordered[p], 0)] BY DEF Remove
  <2> QED BY <2>1, <2>2, <2>3
<1>3. Shape'
  <2>1. UNCHANGED <<due, stage, cart, line, parcel, sweep>> BY DEF Remove
  <2> QED BY <1>1, <1>2, <2>1 DEF IndInv, Shape
<1>4. \A r \in Purchases : ordered[r] # <<>> => ordered'[r] # <<>>
  <2>1. ordered[p] \in Seq(Nat) BY DEF IndInv, Shape
  <2>2. Append(ordered[p], 0) # <<>>
    <3> DEFINE s == ordered[p]
    <3> HIDE DEF s
    <3>1. s \in Seq(Nat) => Len(Append(s, 0)) = Len(s) + 1 /\ Len(s) \in Nat
      OBVIOUS
    <3>2. s \in Seq(Nat) => Append(s, 0) # <<>> BY <3>1
    <3> QED BY <2>1, <3>2 DEF s
  <2>3. ordered' = [ordered EXCEPT ![p] = Append(ordered[p], 0)] BY DEF Remove
  <2> QED BY <2>2, <2>3 DEF IndInv, Shape
<1>5. OrdersStand' BY <1>4 DEF Remove, IndInv, OrdersStand
<1>6. SweepSees' BY DEF Remove, IndInv, SweepSees
<1> QED BY <1>1, <1>3, <1>5, <1>6, OrderMoves DEF Remove

LEMMA PackKeeps ==
    ASSUME IndInv, NEW p \in Purchases, NEW l \in Locations, NEW n \in Quantities,
           NEW k \in Parcels, Pack(p, l, n, k)
    PROVE  IndInv'
<1> DEFINE q == n * Required
<1>1. n \in Nat /\ q \in Nat BY SizesAssumption
<1>2. /\ stage[p] \in {"done", "canceled"}
      /\ IF Taken(p, l, q)
           THEN /\ reserved' = [reserved EXCEPT ![l] = @ - q]
                /\ held' = [held EXCEPT ![p][l] = @ - q]
           ELSE UNCHANGED <<reserved, held>>
      /\ parcel' = [parcel EXCEPT ![k] =
           [of |-> p, version |-> Version(p), at |-> l, quantity |-> n,
            state |-> "packed"]]
      /\ UNCHANGED <<due, stage, cart, line, ordered, sweep, stale>>
  BY DEF Pack
<1> HIDE DEF q
<1>3. held' \in [Holds -> [Locations -> Nat]]
  <2>1. CASE Taken(p, l, q)
    <3>1. held[p][l] \in Nat /\ held[p][l] - q \in Nat
      BY <1>1, <2>1, HoldsSplit DEF Taken, IndInv, Shape
    <3>2. held' = [held EXCEPT ![p] = [held[p] EXCEPT ![l] = held[p][l] - q]]
      BY <1>2, <2>1
    <3>3. [held[p] EXCEPT ![l] = held[p][l] - q] \in [Locations -> Nat]
      BY <3>1, HoldsSplit DEF IndInv, Shape
    <3> QED BY <3>2, <3>3 DEF IndInv, Shape
  <2>2. CASE ~Taken(p, l, q)
    <3>1. held' = held BY <1>2, <2>2
    <3> QED BY <3>1 DEF IndInv, Shape
  <2> QED BY <2>1, <2>2
<1>4. \A g \in Holds \ {p} : held'[g] = held[g] BY <1>2 DEF IndInv, Shape
<1>5. reserved' \in [Locations -> Nat]
  <2>1. Taken(p, l, q) => reserved[l] >= q BY DEF Pack, q
  <2>2. q \in Nat /\ reserved \in [Locations -> Nat] BY <1>1 DEF IndInv, Shape
  <2>3. CASE Taken(p, l, q)
    <3>1. reserved[l] >= q /\ reserved[l] \in Nat BY <2>1, <2>2, <2>3
    <3>2. reserved[l] - q \in Nat BY <2>2, <3>1
    <3>3. reserved' = [reserved EXCEPT ![l] = reserved[l] - q] BY <1>2, <2>3
    <3> QED BY <2>2, <3>2, <3>3
  <2>4. CASE ~Taken(p, l, q) BY <1>2, <2>2, <2>4
  <2> QED BY <2>3, <2>4
<1>6. \A j \in Locations : reserved'[j] = reserved[j] + held'[p][j] - held[p][j]
  <2>1. CASE Taken(p, l, q)
    <3>1. reserved' = [reserved EXCEPT ![l] = reserved[l] - q]
          /\ held' = [held EXCEPT ![p] = [held[p] EXCEPT ![l] = held[p][l] - q]]
      BY <1>2, <2>1
    <3> QED BY <1>1, <3>1, HoldsSplit DEF IndInv, Shape
  <2>2. CASE ~Taken(p, l, q)
    <3>1. held' = held /\ reserved' = reserved BY <1>2, <2>2
    <3> QED BY <3>1, HoldsSplit DEF IndInv, Shape
  <2> QED BY <2>1, <2>2
<1>7. HoldsAddUp' BY <1>2, <1>3, <1>4, <1>6, HoldsSplit, LevelFollows DEF IndInv
<1>8. Shape'
  <2>1. Version(p) \in Nat BY DEF Version, IndInv, Shape
  <2>2. parcel' \in [Parcels -> ParcelStates]
    BY <1>1, <1>2, <2>1 DEF IndInv, Shape, ParcelStates
  <2> QED BY <1>2, <1>3, <1>5, <2>2 DEF IndInv, Shape
<1>9. OrdersStand' BY <1>2 DEF IndInv, OrdersStand, Shape
<1>10. SweepSees' BY <1>2 DEF IndInv, SweepSees
<1> QED BY <1>2, <1>4, <1>7, <1>8, <1>9, <1>10, OrderMoves

LEMMA CancelParcelKeeps ==
    ASSUME IndInv, NEW k \in Parcels, CancelParcel(k)
    PROVE  IndInv'
<1> DEFINE c == parcel[k]
           p == c.of
           q == c.quantity * Required
<1>1. /\ c.state = "packed"
      /\ Hold(p, c.at, q)
      /\ parcel' = [parcel EXCEPT ![k].state = "canceled"]
      /\ ReplaceRow(p, c.at)
      /\ UNCHANGED <<due, stage, cart, line, ordered, stale>>
  BY DEF CancelParcel, ghosts
<1>2. c \in ParcelStates BY DEF IndInv, Shape
<1>3. p \in Purchases /\ stage[p] \in {"done", "canceled"}
  BY <1>1 DEF IndInv, OrdersStand
<1>4. c.at \in Locations /\ q \in Nat
  BY <1>2, SizesAssumption DEF ParcelStates
<1>5. /\ reserved' \in [Locations -> Nat]
      /\ held' \in [Holds -> [Locations -> Nat]]
      /\ \A g \in Holds \ {p} : held'[g] = held[g]
      /\ HoldsAddUp'
  <2>1. Shape /\ HoldsAddUp /\ p \in Holds BY <1>3, HoldsSplit DEF IndInv
  <2> HIDE DEF p, q, c
  <2> QED BY <1>1, <1>4, <2>1, HoldKeeps
<1>6. Shape'
  <2>1. parcel' \in [Parcels -> ParcelStates]
    <3>1. parcel \in [Parcels -> ParcelStates] BY DEF IndInv, Shape
    <3>2. [parcel[k] EXCEPT !.state = "canceled"] \in ParcelStates
      BY <3>1 DEF ParcelStates
    <3> QED BY <1>1, <3>1, <3>2
  <2>2. sweep' \in [Sweepers -> SweepStates]
    <3>1. \A w \in Sweepers : /\ sweep[w] \in SweepStates
                              /\ [sweep[w] EXCEPT !.replaced = TRUE] \in SweepStates
      BY DEF IndInv, Shape, SweepStates
    <3> QED BY <1>1, <3>1 DEF ReplaceRow
  <2> QED BY <1>1, <1>5, <2>1, <2>2 DEF IndInv, Shape
<1>7. OrdersStand' BY <1>1 DEF IndInv, OrdersStand, Shape, ParcelStates
<1>8. SweepSees'
  <2>1. \A w \in Sweepers : sweep'[w].read = sweep[w].read /\ sweep'[w].of = sweep[w].of
    BY <1>1 DEF ReplaceRow, IndInv, Shape, SweepStates
  <2> QED BY <2>1 DEF IndInv, SweepSees
<1> QED BY <1>1, <1>3, <1>5, <1>6, <1>7, <1>8, OrderMoves

LEMMA LeaveKeeps ==
    ASSUME IndInv, NEW k \in Parcels, Leave(k)
    PROVE  IndInv'
<1>1. parcel' = [parcel EXCEPT ![k].state = "left"] BY DEF Leave
<1>2. Shape'
  <2>1. parcel' \in [Parcels -> ParcelStates]
    <3>1. parcel \in [Parcels -> ParcelStates] BY DEF IndInv, Shape
    <3>2. [parcel[k] EXCEPT !.state = "left"] \in ParcelStates
      BY <3>1 DEF ParcelStates
    <3> QED BY <1>1, <3>1, <3>2
  <2> QED BY <2>1 DEF Leave, IndInv, Shape, level, orders
<1>3. OrdersStand' BY <1>1 DEF Leave, IndInv, OrdersStand, Shape, ParcelStates, orders
<1> QED BY <1>2, <1>3, NothingHeld DEF Leave, level, ghosts

LEMMA CancelOrderKeeps ==
    ASSUME IndInv, NEW p \in Purchases, CancelOrder(p)
    PROVE  IndInv'
<1>1. /\ stage[p] = "done"
      /\ LetGo(p)
      /\ parcel' = [k \in Parcels |-> IF k \in Open(p)
           THEN [parcel[k] EXCEPT !.state = "canceled"] ELSE parcel[k]]
      /\ stage' = [stage EXCEPT ![p] = "canceled"]
      /\ UNCHANGED <<due, cart, line, ordered, sweep, stale>>
  BY DEF CancelOrder, ghosts
<1>2. /\ reserved' \in [Locations -> Nat]
      /\ held' \in [Holds -> [Locations -> Nat]]
      /\ \A g \in Holds \ {p} : held'[g] = held[g]
      /\ HoldsAddUp'
  BY <1>1, HoldsSplit, LetGoKeeps DEF IndInv
<1>3. Shape'
  <2>1. parcel' \in [Parcels -> ParcelStates]
    <3>1. \A k \in Parcels : parcel[k] \in ParcelStates BY DEF IndInv, Shape
    <3>2. \A k \in Parcels : [parcel[k] EXCEPT !.state = "canceled"] \in ParcelStates
      BY <3>1 DEF ParcelStates
    <3> QED BY <1>1, <3>1, <3>2
  <2>2. stage' \in [Purchases -> Stages] BY <1>1 DEF IndInv, Shape, Stages
  <2>3. UNCHANGED <<due, cart, line, ordered, sweep>> BY <1>1
  <2>4. Shape BY DEF IndInv
  <2> QED BY <1>2, <2>1, <2>2, <2>3, <2>4 DEF Shape
<1>4. \A r \in Purchases : r # p => stage'[r] = stage[r]
  BY <1>1 DEF IndInv, Shape
<1>5. stage'[p] = "canceled" BY <1>1 DEF IndInv, Shape
<1>6. \A k \in Parcels : parcel'[k].of = parcel[k].of
        /\ (parcel'[k].state = "packed" => parcel[k].state = "packed")
  BY <1>1 DEF IndInv, Shape, ParcelStates
<1>7. OrdersStand' BY <1>1, <1>4, <1>5, <1>6 DEF IndInv, OrdersStand
<1>8. SweepSees' BY <1>1 DEF IndInv, SweepSees
<1> QED BY <1>1, <1>2, <1>3, <1>4, <1>5, <1>7, <1>8, OrderMoves

LEMMA StockKeeps ==
    ASSUME IndInv, UNCHANGED <<reserved, held, due, stage, cart, line, ordered, parcel,
                               sweep, stale>>
    PROVE  IndInv'
<1>1. Shape' BY DEF IndInv, Shape
<1>2. OrdersStand' BY DEF IndInv, OrdersStand
<1> QED BY <1>1, <1>2, NothingHeld

-----------------------------------------------------------------------------
(* The theorems. *)

LEMMA NextKeeps == IndInv /\ [Next]_vars => IndInv'
<1> SUFFICES ASSUME IndInv, [Next]_vars PROVE IndInv'
  OBVIOUS
<1>1. ASSUME NEW p \in Purchases, Buying(p) PROVE IndInv'
  BY <1>1, OpenCartKeeps, ReserveKeeps, ReserveRenewalKeeps, DeliverKeeps,
     ChangeCartKeeps, PlaceKeeps, CompleteKeeps, UndoKeeps DEF Buying
<1>2. ASSUME NEW p \in Purchases, Selling(p) PROVE IndInv'
  BY <1>2, EditKeeps, RemoveKeeps, PackKeeps, CancelOrderKeeps DEF Selling
<1>3. ASSUME NEW w \in Sweepers, Sweeping(w) PROVE IndInv'
  BY <1>3, SweepPickKeeps, SweepReadKeeps, SweepFinishKeeps, SweepFailsKeeps DEF Sweeping
<1>4. ASSUME NEW l \in Locations, NEW n, SetStock(l, n) \/ AdjustStock(l, n) PROVE IndInv'
  BY <1>4, StockKeeps DEF SetStock, AdjustStock, Counted, orders
<1>5. ASSUME NEW l \in Locations, NEW to \in Locations, NEW n \in Quantities,
             Transfer(l, to, n)
      PROVE  IndInv'
  BY <1>5, StockKeeps DEF Transfer, orders, ghosts
<1>6. CASE UNCHANGED vars
  BY <1>6, StockKeeps DEF vars, level, orders, ghosts
<1>7. CASE Next
  BY <1>1, <1>2, <1>3, <1>4, <1>5, <1>7, CancelParcelKeeps, LeaveKeeps,
     HandReserveKeeps, HandReleaseKeeps, HandFulfilKeeps, ExpireKeeps DEF Next
<1> QED BY <1>6, <1>7

\* IndInv holds of every reachable state.
THEOREM InventoryInvariance == Spec => []IndInv
<1>1. Init => IndInv BY InitKeeps
<1>2. IndInv /\ [Next]_vars => IndInv' BY NextKeeps
<1> QED BY <1>1, <1>2, PTL DEF Spec

\* A level's reserved_quantity is what its reservations add up to, whatever is
\* reserved, moved, scaled, packed, cancelled, swept or expired, in any order,
\* but where a sweep gave back what a hold no longer was (src/inventory.rs).
THEOREM HoldsAlwaysAddUp == Spec => []HoldsAddUp
<1>1. IndInv => HoldsAddUp BY DEF IndInv
<1> QED BY <1>1, InventoryInvariance, PTL

\* No sweep of expired carts leaves a hold in the name of a cart it deleted,
\* however it meets the checkout (src/cart.rs, expire).
THEOREM HoldsAlwaysNameACart == Spec => []HoldsNameACart
<1>1. IndInv => HoldsNameACart BY DEF IndInv
<1> QED BY <1>1, InventoryInvariance, PTL

\* Where no sweep gave back what a hold no longer was, the constraint that keeps
\* a level from going below nothing refuses no release, fulfilment, edit or
\* parcel (inventory_level_reserved_quantity_valid).
THEOREM NoReleaseRefused ==
    Spec => [](\A h \in Holds, l \in Locations :
                  l \notin stale => reserved[l] >= held[h][l])
<1>1. IndInv => \A h \in Holds, l \in Locations :
                   l \notin stale => reserved[l] >= held[h][l]
  BY LevelAtLeastHold
<1> QED BY <1>1, InventoryInvariance, PTL

-----------------------------------------------------------------------------
(***************************************************************************)
(* The rest of what is kept: what orders count in parcels, what is on the  *)
(* shelves and what is promised of it, and what a purchase holds that      *)
(* nothing but its checkout and its order ever touched.                    *)
(***************************************************************************)

\* The parcels of one version of an order that are here still.
OpenOf(p, v) == {k \in Open(p) : parcel[k].version = v}

\* An order counts, version by version, at least what such parcels have in them
\* and at most what is ordered.
PackedStands ==
    /\ packed \in [Purchases -> Seq(Nat)]
    /\ \A p \in Purchases : Len(packed[p]) = Len(ordered[p])
    /\ \A p \in Purchases : \A v \in 1 .. Len(ordered[p]) :
          packed[p][v] <= ordered[p][v] /\ Units(OpenOf(p, v)) <= packed[p][v]

\* A parcel is of a version there is of an order that was placed.
ParcelStands(k) ==
    \/ parcel[k] = NoParcel
    \/ /\ parcel[k].of \in Purchases
       /\ parcel[k].state # "none"
       /\ stage[parcel[k].of] \in {"done", "canceled"}
       /\ parcel[k].version \in 1 .. Version(parcel[k].of)

Shelves ==
    /\ stocked \in [Locations -> Nat]
    /\ touched \in [Purchases -> Causes \cup {"nothing"}]
    /\ short \subseteq Locations
    /\ counted \in Int

\* All that h holds, q units, is at one place.
AllAt(h, q) == \E l \in Locations : held[h] = [Nowhere EXCEPT ![l] = q]

NeverPacked(p) == \A k \in Parcels : parcel[k].of # p

\* A purchase holds nothing before its checkout does, then what its line asks
\* for, then, all of it in one place until the first parcel, what its order has
\* still to ship: an edit scales what is in one place exactly.
Covered(p) ==
    /\ stage[p] = "new" => held[p] = Nowhere
    /\ touched[p] = "nothing" /\ stage[p] = "held" => AllAt(p, line[p] * Required)
    /\ touched[p] = "nothing" /\ stage[p] \in {"placed", "done"} /\ NeverPacked(p) =>
          /\ packed[p][Version(p)] = 0
          /\ AllAt(p, ordered[p][Version(p)] * Required)
    /\ touched[p] = "nothing" /\ stage[p] = "done" /\ Uncrossed(p) =>
          SumFunctionOnSet(held[p], Locations) =
              (ordered[p][Version(p)] - packed[p][Version(p)]) * Required

BooksInv ==
    /\ PackedStands
    /\ Shelves
    /\ GoodsConserved
    /\ NeverOversold
    /\ \A k \in Parcels : ParcelStands(k)
    /\ \A p \in Purchases : Covered(p)

-----------------------------------------------------------------------------
(* What a step leaves as it was. *)

\* Sums over locations and over parcels are of finitely many numbers.
LEMMA Finite == IsFiniteSet(Locations) /\ IsFiniteSet(Parcels)
<1>1. MaxParcels \in Int BY SizesAssumption
<1> QED BY <1>1, SizesAssumption, FS_Interval DEF Parcels

\* What some parcels have in them is a number of units.
LEMMA UnitsType ==
    ASSUME Shape, NEW ks \in SUBSET Parcels
    PROVE  /\ Units(ks) \in Nat
           /\ \A k \in ks : Units(ks) = parcel[k].quantity + Units(ks \ {k})
<1> DEFINE f == [k \in Parcels |-> parcel[k].quantity]
<1>1. \A k \in ks : f[k] \in Nat /\ f[k] = parcel[k].quantity BY DEF Shape, ParcelStates
<1>2. IsFiniteSet(ks) BY Finite, FS_Subset
<1>3. Units(ks) = SumFunctionOnSet(f, ks) BY DEF Units
<1>4. \A k \in ks : Units(ks \ {k}) = SumFunctionOnSet(f, ks \ {k}) BY DEF Units
<1> HIDE DEF f
<1>5. SumFunctionOnSet(f, ks) \in Nat BY <1>1, <1>2, OnSetNat
<1>6. \A k \in ks : SumFunctionOnSet(f, ks) = f[k] + SumFunctionOnSet(f, ks \ {k})
  BY <1>1, <1>2, OnSetRemove
<1> QED BY <1>1, <1>3, <1>4, <1>5, <1>6

\* No parcels have nothing in them.
LEMMA UnitsNone == Units({}) = 0
BY OnSetEmpty DEF Units

\* Parcels that are as full as they were.
LEMMA UnitsStay ==
    ASSUME Shape, Shape', NEW ks \in SUBSET Parcels,
           \A k \in ks : parcel'[k].quantity = parcel[k].quantity
    PROVE  SumFunctionOnSet([k \in Parcels |-> parcel'[k].quantity], ks) = Units(ks)
<1> DEFINE f == [k \in Parcels |-> parcel[k].quantity]
           g == [k \in Parcels |-> parcel'[k].quantity]
<1>1. \A k \in ks : f[k] \in Int /\ g[k] = f[k] BY DEF Shape, ParcelStates
<1>2. IsFiniteSet(ks) BY Finite, FS_Subset
<1>3. SumFunctionOnSet(g, ks) = SumFunctionOnSet(f, ks)
  <2> HIDE DEF f, g
  <2> QED BY <1>1, <1>2, OnSetSame
<1> QED BY <1>3 DEF Units

\* A step that touches no order and no parcel.
LEMMA PackedStays ==
    ASSUME PackedStands, ordered' = ordered, packed' = packed, parcel' = parcel
    PROVE  PackedStands'
<1>1. \A p, v : (Units(OpenOf(p, v)))' = Units(OpenOf(p, v)) BY DEF Units, OpenOf, Open
<1> QED BY <1>1 DEF PackedStands

LEMMA ParcelsStay ==
    ASSUME \A k \in Parcels : ParcelStands(k), parcel' = parcel, ordered' = ordered,
           \A p \in Purchases : stage[p] \in {"done", "canceled"} =>
                                stage'[p] \in {"done", "canceled"}
    PROVE  \A k \in Parcels : ParcelStands(k)'
BY DEF ParcelStands, Version

\* A step that puts nothing on a shelf and takes nothing off it.
LEMMA GoodsStay ==
    ASSUME GoodsConserved, stocked' = stocked, parcel' = parcel, counted' = counted
    PROVE  GoodsConserved'
<1>1. (Units({k \in Parcels : parcel[k].state \in {"packed", "left"}}))'
        = Units({k \in Parcels : parcel[k].state \in {"packed", "left"}})
  BY DEF Units
<1> QED BY <1>1 DEF GoodsConserved

\* A step that is no business of a purchase's, or that touches it from outside.
LEMMA CoveredStays ==
    ASSUME NEW p \in Purchases, Covered(p),
           touched'[p] = touched[p] \/ touched'[p] # "nothing",
           stage'[p] = stage[p], line'[p] = line[p], ordered'[p] = ordered[p],
           packed'[p] = packed[p],
           \/ held'[p] = held[p]
           \/ touched'[p] # "nothing" /\ stage[p] # "new",
           \A k \in Parcels : parcel[k].of = p =>
               parcel'[k].of = p /\ parcel'[k].version = parcel[k].version
    PROVE  Covered(p)'
<1>1. Version(p)' = Version(p) BY DEF Version
<1>2. NeverPacked(p)' => NeverPacked(p) BY DEF NeverPacked
<1>3. Uncrossed(p)' => Uncrossed(p) BY <1>1 DEF Uncrossed
<1>4. held'[p] = held[p] => \A q : AllAt(p, q)' <=> AllAt(p, q) BY DEF AllAt, Nowhere
<1>5. touched'[p] = "nothing" => held'[p] = held[p] /\ touched[p] = "nothing" OBVIOUS
<1>6. stage'[p] = "new" => held'[p] = Nowhere' BY DEF Covered, Nowhere
<1>7. touched'[p] = "nothing" /\ stage'[p] = "held" => AllAt(p, line[p] * Required)'
  <2> SUFFICES ASSUME touched'[p] = "nothing", stage'[p] = "held"
               PROVE  AllAt(p, line[p] * Required)'
    OBVIOUS
  <2>1. AllAt(p, line[p] * Required) BY <1>5 DEF Covered
  <2> QED BY <1>5, <2>1 DEF AllAt, Nowhere
<1>8. touched'[p] = "nothing" /\ stage'[p] \in {"placed", "done"} /\ NeverPacked(p)' =>
          /\ packed'[p][Version(p)'] = 0
          /\ AllAt(p, ordered[p][Version(p)] * Required)'
  <2> SUFFICES ASSUME touched'[p] = "nothing", stage'[p] \in {"placed", "done"},
                      NeverPacked(p)'
               PROVE  /\ packed'[p][Version(p)'] = 0
                      /\ AllAt(p, ordered[p][Version(p)] * Required)'
    OBVIOUS
  <2>1. packed[p][Version(p)] = 0 /\ AllAt(p, ordered[p][Version(p)] * Required)
    BY <1>2, <1>5 DEF Covered
  <2> QED BY <1>1, <1>5, <2>1 DEF AllAt, Nowhere
<1>9. touched'[p] = "nothing" /\ stage'[p] = "done" /\ Uncrossed(p)' =>
          SumFunctionOnSet(held'[p], Locations) =
              (ordered'[p][Version(p)'] - packed'[p][Version(p)']) * Required
  BY <1>1, <1>3, <1>5 DEF Covered
<1> QED BY <1>6, <1>7, <1>8, <1>9 DEF Covered

\* What is promised is there still where a step promises no more and takes
\* nothing off the shelf.
LEMMA StillThere ==
    ASSUME NeverOversold, Shelves, reserved \in [Locations -> Int],
           reserved' \in [Locations -> Nat], stocked' \in [Locations -> Int],
           \A l \in Locations : stocked'[l] >= stocked[l] /\ reserved'[l] <= reserved[l],
           short \subseteq short'
    PROVE  NeverOversold'
BY DEF NeverOversold, Shelves

\* A new hold that fits is there too.
LEMMA FitsStill ==
    ASSUME NeverOversold, Shelves, reserved \in [Locations -> Nat], stocked' = stocked,
           short' = short, NEW h \in Holds, NEW l \in Locations, NEW q \in Nat,
           Fits(l, q), Hold(h, l, q)
    PROVE  NeverOversold'
BY DEF NeverOversold, Shelves, Fits, Available, Hold

\* A step of purchases and holds: orders, parcels and shelves are as they were.
LEMMA Quietly ==
    ASSUME BooksInv, UNCHANGED <<stocked, ordered, packed, parcel, counted, short>>,
           touched' \in [Purchases -> Causes \cup {"nothing"}], NeverOversold',
           \A p \in Purchases : stage[p] \in {"done", "canceled"} =>
                                stage'[p] \in {"done", "canceled"},
           \A p \in Purchases : Covered(p)'
    PROVE  BooksInv'
<1>1. PackedStands' BY PackedStays DEF BooksInv
<1>2. Shelves' BY DEF BooksInv, Shelves
<1>3. GoodsConserved' BY GoodsStay DEF BooksInv
<1>4. \A k \in Parcels : ParcelStands(k)' BY ParcelsStay DEF BooksInv
<1> QED BY <1>1, <1>2, <1>3, <1>4 DEF BooksInv

\* What Touch leaves: the first cause stays.
LEMMA TouchKeeps ==
    ASSUME Shelves, NEW p \in Purchases, NEW cause \in Causes \cup {"nothing"}, Touch(p, cause)
    PROVE  /\ touched' \in [Purchases -> Causes \cup {"nothing"}]
           /\ \A r \in Purchases : r # p => touched'[r] = touched[r]
           /\ touched'[p] = IF touched[p] = "nothing" THEN cause ELSE touched[p]
           /\ cause # "nothing" => touched'[p] # "nothing"
BY DEF Shelves, Touch

-----------------------------------------------------------------------------
(* The steps, one by one, once more. *)

LEMMA InitBooks == Init => BooksInv
<1> SUFFICES ASSUME Init PROVE BooksInv
  OBVIOUS
<1>1. Shape BY InitKeeps DEF IndInv
<1>2. PackedStands
  <2>1. \A p \in Purchases : ordered[p] = <<>> /\ packed[p] = <<>> BY DEF Init
  <2> QED BY <2>1 DEF Init, PackedStands
<1>3. Shelves BY DEF Init, Shelves, Nowhere
<1>4. GoodsConserved
  <2>1. {k \in Parcels : parcel[k].state \in {"packed", "left"}} = {}
    BY DEF Init, NoParcel
  <2>2. SumFunctionOnSet(stocked, Locations) = 0
    BY Finite, OnSetZero DEF Init, Nowhere
  <2>3. Units({k \in Parcels : parcel[k].state \in {"packed", "left"}}) = 0
    BY <2>1, UnitsNone
  <2>4. counted = 0 BY DEF Init
  <2> QED BY <2>2, <2>3, <2>4, SizesAssumption DEF GoodsConserved
<1>5. NeverOversold BY DEF Init, NeverOversold, Nowhere
<1>6. \A k \in Parcels : ParcelStands(k) BY DEF Init, ParcelStands
<1>7. \A p \in Purchases : Covered(p) BY HoldsSplit DEF Init, Covered
<1> QED BY <1>2, <1>3, <1>4, <1>5, <1>6, <1>7 DEF BooksInv

\* A purchase that is no longer as far as an order.
LEMMA NothingToCover ==
    ASSUME NEW p \in Purchases, stage'[p] \in {"undone", "canceled"}
    PROVE  Covered(p)'
BY DEF Covered

LEMMA OpenCartBooks ==
    ASSUME IndInv, BooksInv, NEW p \in Purchases, NEW n \in Quantities, OpenCart(p, n)
    PROVE  BooksInv'
<1>1. /\ UNCHANGED <<stocked, reserved, held, stage, ordered, packed, parcel, touched,
                     short, counted>>
      /\ line' = [line EXCEPT ![p] = n]
      /\ stage[p] = "new"
  BY DEF OpenCart, level, orders, ghosts
<1>2. \A r \in Purchases : Covered(r)'
  <2> SUFFICES ASSUME NEW r \in Purchases PROVE Covered(r)'
    OBVIOUS
  <2>1. Covered(r) BY DEF BooksInv
  <2>2. CASE r # p
    <3>1. line'[r] = line[r] BY <1>1, <2>2 DEF IndInv, Shape
    <3> QED BY <1>1, <2>1, <3>1, CoveredStays
  <2>3. CASE r = p BY <1>1, <2>1, <2>3 DEF Covered, Nowhere
  <2> QED BY <2>2, <2>3
<1>3. NeverOversold' BY <1>1 DEF BooksInv, NeverOversold
<1> QED BY <1>1, <1>2, <1>3, Quietly DEF BooksInv, Shelves

\* `reserve`, in the name of a purchase that holds nothing yet.
LEMMA ReserveCovers ==
    ASSUME IndInv, NEW p \in Purchases, NEW l \in Locations, NEW q \in Nat,
           Hold(p, l, q), Covered(p), stage[p] = "new", stage'[p] = "held",
           q = line'[p] * Required
    PROVE  Covered(p)'
<1>1. held[p] = Nowhere BY DEF Covered
<1>2. p \in Holds BY HoldsSplit
<1>3. held'[p] = [held[p] EXCEPT ![l] = held[p][l] + q]
  BY <1>2 DEF Hold, IndInv, Shape
<1>4. held[p][l] = 0 BY <1>1 DEF Nowhere
<1>5. held'[p] = [Nowhere EXCEPT ![l] = q]
  <2>1. held[p][l] + q = q BY <1>4
  <2>2. held'[p] = [held[p] EXCEPT ![l] = q] BY <1>3, <2>1
  <2> QED BY <1>1, <2>2
<1>6. AllAt(p, q)' BY <1>5 DEF AllAt, Nowhere
<1> QED BY <1>6 DEF Covered

LEMMA ReserveBooks ==
    ASSUME IndInv, BooksInv, NEW p \in Purchases, NEW l \in Locations, Reserve(p, l)
    PROVE  BooksInv'
<1> DEFINE q == line[p] * Required
<1>1. /\ UNCHANGED <<stocked, ordered, packed, parcel, touched, short, counted, line>>
      /\ Fits(l, q) /\ Hold(p, l, q)
      /\ stage[p] = "new" /\ stage' = [stage EXCEPT ![p] = "held"]
  BY DEF Reserve, orders, ghosts
<1>2. q \in Nat BY SizesAssumption DEF IndInv, Shape
<1>3. stage'[p] = "held" /\ \A r \in Purchases : r # p => stage'[r] = stage[r]
  BY <1>1 DEF IndInv, Shape
<1>4. p \in Holds /\ \A r \in Purchases : r # p => held'[r] = held[r]
  BY <1>1, HoldsSplit DEF Hold, IndInv, Shape
<1>5. q = line'[p] * Required BY <1>1
<1> HIDE DEF q
<1>6. \A r \in Purchases : Covered(r)'
  <2> SUFFICES ASSUME NEW r \in Purchases PROVE Covered(r)'
    OBVIOUS
  <2>1. Covered(r) BY DEF BooksInv
  <2>2. CASE r # p BY <1>1, <1>3, <1>4, <2>1, <2>2, CoveredStays
  <2>3. CASE r = p BY <1>1, <1>2, <1>3, <1>5, <2>1, <2>3, ReserveCovers
  <2> QED BY <2>2, <2>3
<1>7. NeverOversold' BY <1>1, <1>2, <1>4, FitsStill DEF BooksInv, IndInv, Shape
<1> QED BY <1>1, <1>3, <1>6, <1>7, Quietly DEF BooksInv, Shelves

LEMMA ReserveRenewalBooks ==
    ASSUME IndInv, BooksInv, NEW p \in Purchases, NEW l \in Locations,
           NEW n \in Quantities, ReserveRenewal(p, l, n)
    PROVE  BooksInv'
<1> DEFINE q == n * Required
<1>1. /\ UNCHANGED <<stocked, ordered, packed, parcel, touched, short, counted>>
      /\ Fits(l, q) /\ Hold(p, l, q)
      /\ stage[p] = "new" /\ stage' = [stage EXCEPT ![p] = "held"]
      /\ line' = [line EXCEPT ![p] = n]
  BY DEF ReserveRenewal, orders, ghosts
<1>2. q \in Nat BY SizesAssumption
<1>3. stage'[p] = "held" /\ \A r \in Purchases : r # p => stage'[r] = stage[r]
  BY <1>1 DEF IndInv, Shape
<1>4. p \in Holds /\ \A r \in Purchases : r # p => held'[r] = held[r]
  BY <1>1, HoldsSplit DEF Hold, IndInv, Shape
<1>5. \A r \in Purchases : r # p => line'[r] = line[r] BY <1>1 DEF IndInv, Shape
<1>6. q = line'[p] * Required BY <1>1 DEF IndInv, Shape
<1> HIDE DEF q
<1>7. \A r \in Purchases : Covered(r)'
  <2> SUFFICES ASSUME NEW r \in Purchases PROVE Covered(r)'
    OBVIOUS
  <2>1. Covered(r) BY DEF BooksInv
  <2>2. CASE r # p BY <1>1, <1>3, <1>4, <1>5, <2>1, <2>2, CoveredStays
  <2>3. CASE r = p BY <1>1, <1>2, <1>3, <1>6, <2>1, <2>3, ReserveCovers
  <2> QED BY <2>2, <2>3
<1>8. NeverOversold' BY <1>1, <1>2, <1>4, FitsStill DEF BooksInv, IndInv, Shape
<1> QED BY <1>1, <1>3, <1>7, <1>8, Quietly DEF BooksInv, Shelves

LEMMA ChangeCartBooks ==
    ASSUME IndInv, BooksInv, NEW p \in Purchases, NEW n \in Quantities, ChangeCart(p, n)
    PROVE  BooksInv'
<1>1. /\ UNCHANGED <<stocked, reserved, held, stage, ordered, packed, parcel, short, counted>>
      /\ stage[p] = "held" /\ line' = [line EXCEPT ![p] = n]
      /\ Touch(p, "changed")
  BY DEF ChangeCart, level, orders
<1>2. /\ touched' \in [Purchases -> Causes \cup {"nothing"}]
      /\ touched'[p] # "nothing"
      /\ \A r \in Purchases : r # p => touched'[r] = touched[r]
  BY <1>1, TouchKeeps DEF BooksInv, Causes
<1>3. \A r \in Purchases : Covered(r)'
  <2> SUFFICES ASSUME NEW r \in Purchases PROVE Covered(r)'
    OBVIOUS
  <2>1. Covered(r) BY DEF BooksInv
  <2>2. CASE r # p
    <3>1. line'[r] = line[r] BY <1>1, <2>2 DEF IndInv, Shape
    <3> QED BY <1>1, <1>2, <2>1, <2>2, <3>1, CoveredStays
  <2>3. CASE r = p BY <1>1, <1>2, <2>3 DEF Covered
  <2> QED BY <2>2, <2>3
<1>4. NeverOversold' BY <1>1 DEF BooksInv, NeverOversold
<1> QED BY <1>1, <1>2, <1>3, <1>4, Quietly DEF BooksInv

\* A placed order has no parcel yet.
LEMMA NoneYet ==
    ASSUME BooksInv, NEW p \in Purchases, stage[p] \notin {"done", "canceled"}, p # 0
    PROVE  NeverPacked(p)
<1> SUFFICES ASSUME NEW k \in Parcels PROVE parcel[k].of # p
  BY DEF NeverPacked
<1>1. ParcelStands(k) BY DEF BooksInv
<1>2. CASE parcel[k] = NoParcel BY <1>2 DEF NoParcel
<1>3. CASE parcel[k] # NoParcel BY <1>1, <1>3 DEF ParcelStands
<1> QED BY <1>2, <1>3

\* What is all at one place comes to what is there.
LEMMA AllAtSum ==
    ASSUME NEW l \in Locations, NEW q \in Nat
    PROVE  SumFunctionOnSet([Nowhere EXCEPT ![l] = q], Locations) = q
<1> DEFINE z == Nowhere
           f == [Nowhere EXCEPT ![l] = q]
<1>1. \A x \in Locations : z[x] = 0 BY DEF Nowhere
<1>2. \A x \in Locations : f[x] = IF x = l THEN q ELSE 0 BY DEF Nowhere
<1>3. SumFunctionOnSet(z, Locations) = 0 BY <1>1, Finite, OnSetZero
<1> HIDE DEF z, f
<1>4. (\A x \in Locations : z[x] \in Int /\ f[x] \in Int)
      /\ \A x \in Locations \ {l} : f[x] = z[x]
  BY <1>1, <1>2
<1>5. SumFunctionOnSet(f, Locations) = SumFunctionOnSet(z, Locations) + f[l] - z[l]
  BY <1>4, Finite, OnSetMoves
<1>6. SumFunctionOnSet(f, Locations) = q BY <1>1, <1>2, <1>3, <1>5
<1> QED BY <1>6 DEF f

LEMMA CompleteBooks ==
    ASSUME IndInv, BooksInv, NEW p \in Purchases, Complete(p)
    PROVE  BooksInv'
<1>1. /\ UNCHANGED <<stocked, reserved, held, line, ordered, packed, parcel, touched,
                     short, counted>>
      /\ stage[p] = "placed" /\ stage' = [stage EXCEPT ![p] = "done"]
  BY DEF Complete, level, orders, ghosts
<1>2. stage'[p] = "done" /\ \A r \in Purchases : r # p => stage'[r] = stage[r]
  BY <1>1 DEF IndInv, Shape
<1>3. Covered(p)'
  <2>1. p # 0 BY DEF Purchases
  <2>2. NeverPacked(p) BY <1>1, <2>1, NoneYet
  <2>3. SUFFICES ASSUME touched[p] = "nothing" PROVE Covered(p)'
    BY <1>1, <1>2 DEF Covered
  <2> DEFINE n == ordered[p][Version(p)]
  <2>4. packed[p][Version(p)] = 0 /\ AllAt(p, n * Required)
    BY <1>1, <2>2, <2>3 DEF BooksInv, Covered
  <2>5. n \in Nat /\ n * Required \in Nat
    <3>1. ordered[p] \in Seq(Nat) /\ ordered[p] # <<>> BY <1>1 DEF IndInv, Shape, OrdersStand
    <3>2. Version(p) \in 1 .. Len(ordered[p]) BY <3>1 DEF Version
    <3>3. n \in Nat BY <3>1, <3>2
    <3> QED BY <3>3, SizesAssumption
  <2>6. SumFunctionOnSet(held[p], Locations) = n * Required
    <3>1. PICK l \in Locations : held[p] = [Nowhere EXCEPT ![l] = n * Required]
      BY <2>4 DEF AllAt
    <3> QED BY <2>5, <3>1, AllAtSum
  <2>7. (n - packed[p][Version(p)]) * Required = n * Required BY <2>4, <2>5
  <2>8. Version(p)' = Version(p) BY <1>1 DEF Version
  <2>9. AllAt(p, n * Required)' BY <1>1, <2>4 DEF AllAt, Nowhere, Version
  <2> QED BY <1>1, <1>2, <2>4, <2>6, <2>7, <2>8, <2>9 DEF Covered
<1>4. \A r \in Purchases : Covered(r)'
  <2> SUFFICES ASSUME NEW r \in Purchases, r # p PROVE Covered(r)'
    BY <1>3
  <2>1. Covered(r) BY DEF BooksInv
  <2> QED BY <1>1, <1>2, <2>1, CoveredStays
<1>5. NeverOversold' BY <1>1 DEF BooksInv, NeverOversold
<1> QED BY <1>1, <1>2, <1>4, <1>5, Quietly DEF BooksInv, Shelves

LEMMA UndoBooks ==
    ASSUME IndInv, IndInv', BooksInv, NEW p \in Purchases, Undo(p)
    PROVE  BooksInv'
<1>1. /\ UNCHANGED <<stocked, line, ordered, packed, parcel, touched, short, counted>>
      /\ stage[p] \in {"held", "placed"} /\ stage' = [stage EXCEPT ![p] = "undone"]
      /\ LetGo(p)
  BY DEF Undo, orders, ghosts
<1>2. stage'[p] = "undone" /\ \A r \in Purchases : r # p => stage'[r] = stage[r]
  BY <1>1 DEF IndInv, Shape
<1>3. \A r \in Purchases : r # p => held'[r] = held[r]
  BY <1>1, HoldsSplit DEF LetGo, IndInv, Shape
<1>4. \A r \in Purchases : Covered(r)'
  <2> SUFFICES ASSUME NEW r \in Purchases PROVE Covered(r)'
    OBVIOUS
  <2>1. Covered(r) BY DEF BooksInv
  <2>2. CASE r # p BY <1>1, <1>2, <1>3, <2>1, <2>2, CoveredStays
  <2>3. CASE r = p BY <1>2, <2>3, NothingToCover
  <2> QED BY <2>2, <2>3
<1>5. \A l \in Locations : reserved'[l] <= reserved[l]
  BY <1>1, HoldsSplit DEF LetGo, IndInv, Shape
<1>6. NeverOversold' BY <1>1, <1>5, StillThere DEF BooksInv, Shelves, IndInv, Shape
<1> QED BY <1>1, <1>2, <1>4, <1>6, Quietly DEF BooksInv, Shelves

\* A step that reads, and at most forgets what it read.
LEMMA OnlyReads ==
    ASSUME BooksInv, UNCHANGED <<stocked, reserved, held, stage, line, ordered, packed,
                                 parcel, touched, short, counted>>
    PROVE  BooksInv'
<1>1. \A r \in Purchases : Covered(r)' BY CoveredStays DEF BooksInv
<1>2. NeverOversold' BY DEF BooksInv, NeverOversold
<1> QED BY <1>1, <1>2, Quietly DEF BooksInv, Shelves

LEMMA SweepFinishBooks ==
    ASSUME IndInv, IndInv', BooksInv, NEW w \in Sweepers, SweepFinish(w)
    PROVE  BooksInv'
<1> DEFINE p == sweep[w].of
           holds == sweep[w].holds
<1>1. /\ UNCHANGED <<stocked, stage, line, ordered, packed, parcel, short, counted>>
      /\ sweep[w].read /\ AllThere(w)
      /\ held' = [held EXCEPT ![p] = [l \in Locations |->
                    IF holds[l] > 0 THEN 0 ELSE held[p][l]]]
      /\ reserved' = [l \in Locations |-> reserved[l] - holds[l]]
      /\ Touch(p, IF holds # Nowhere THEN "swept" ELSE "nothing")
  BY DEF SweepFinish, orders
<1>2. p \in Purchases /\ p \in Holds /\ holds \in [Locations -> Nat]
  BY <1>1, HoldsSplit DEF IndInv, Shape, SweepSees, SweepStates
<1>3. \A l \in Locations : holds[l] > 0 => stage[p] # "new"
  <2>1. \A l \in Locations : holds[l] > 0 => held[p][l] > 0 BY <1>1 DEF AllThere
  <2>2. stage[p] = "new" => \A l \in Locations : held[p][l] = 0
    BY <1>2 DEF BooksInv, Covered, Nowhere
  <2> QED BY <2>1, <2>2
<1> HIDE DEF p, holds
<1>4. /\ touched' \in [Purchases -> Causes \cup {"nothing"}]
      /\ \A r \in Purchases : r # p => touched'[r] = touched[r]
      /\ touched'[p] = touched[p] \/ touched'[p] # "nothing"
      /\ holds # Nowhere => touched'[p] # "nothing"
  <2> DEFINE cause == IF holds # Nowhere THEN "swept" ELSE "nothing"
  <2>1. cause \in Causes \cup {"nothing"} /\ Touch(p, cause) BY <1>1 DEF Causes
  <2>2. holds # Nowhere => cause # "nothing" OBVIOUS
  <2> HIDE DEF cause
  <2> QED BY <1>2, <2>1, <2>2, TouchKeeps DEF BooksInv
<1>5. \A r \in Purchases : Covered(r)'
  <2> SUFFICES ASSUME NEW r \in Purchases PROVE Covered(r)'
    OBVIOUS
  <2>1. Covered(r) BY DEF BooksInv
  <2>2. CASE r # p
    <3>1. held'[r] = held[r] BY <1>1, <2>2, HoldsSplit DEF IndInv, Shape
    <3> QED BY <1>1, <1>4, <2>1, <2>2, <3>1, CoveredStays
  <2>3. CASE r = p /\ holds = Nowhere
    <3>1. \A l \in Locations : holds[l] = 0 BY <2>3 DEF Nowhere
    <3>2. held[p] \in [Locations -> Nat] BY <1>2 DEF IndInv, Shape
    <3>3. [l \in Locations |-> IF holds[l] > 0 THEN 0 ELSE held[p][l]] = held[p]
      BY <3>1, <3>2
    <3>4. held'[p] = held[p] BY <1>1, <1>2, <3>3 DEF IndInv, Shape
    <3> QED BY <1>1, <1>4, <2>1, <2>3, <3>4, CoveredStays
  <2>4. CASE r = p /\ holds # Nowhere
    <3>1. \E l \in Locations : holds[l] # 0 BY <1>2, <2>4 DEF Nowhere
    <3>2. stage[p] # "new" BY <1>2, <1>3, <3>1
    <3> QED BY <1>1, <1>4, <2>1, <2>4, <3>2, CoveredStays
  <2> QED BY <2>2, <2>3, <2>4
<1>6. \A l \in Locations : reserved'[l] <= reserved[l] BY <1>1, <1>2 DEF IndInv, Shape
<1>7. NeverOversold' BY <1>1, <1>6, StillThere DEF BooksInv, Shelves, IndInv, Shape
<1> QED BY <1>1, <1>4, <1>5, <1>7, Quietly

\* A step on a hold that names no line, or on one it marks as touched.
LEMMA NotTheirs ==
    ASSUME BooksInv, UNCHANGED <<stage, line, ordered, packed, parcel>>, NEW h,
           \A g \in Holds \ {h} : held'[g] = held[g],
           h \in Purchases => stage[h] # "new" /\ touched'[h] # "nothing",
           \A r \in Purchases : r # h => touched'[r] = touched[r]
    PROVE  \A r \in Purchases : Covered(r)'
<1> SUFFICES ASSUME NEW r \in Purchases PROVE Covered(r)'
  OBVIOUS
<1>1. Covered(r) BY DEF BooksInv
<1>2. CASE r = h BY <1>1, <1>2, CoveredStays
<1>3. CASE r # h
  <2>1. held'[r] = held[r] BY <1>3, HoldsSplit
  <2> QED BY <1>1, <1>3, <2>1, CoveredStays
<1> QED BY <1>2, <1>3

\* A step of the staff's: what it does to shelves must be shown apart.
LEMMA ByHand ==
    ASSUME BooksInv, UNCHANGED <<stage, ordered, packed, parcel>>,
           touched' \in [Purchases -> Causes \cup {"nothing"}],
           stocked' \in [Locations -> Nat], short' \subseteq Locations, counted' \in Int,
           GoodsConserved', NeverOversold', \A p \in Purchases : Covered(p)'
    PROVE  BooksInv'
<1>1. PackedStands' BY PackedStays DEF BooksInv
<1>2. Shelves' BY DEF Shelves
<1>3. \A k \in Parcels : ParcelStands(k)' BY ParcelsStay DEF BooksInv
<1> QED BY <1>1, <1>2, <1>3 DEF BooksInv

LEMMA HandReserveBooks ==
    ASSUME IndInv, BooksInv, NEW h \in Unnamed, NEW l \in Locations,
           NEW q \in Quantities, HandReserve(h, l, q)
    PROVE  BooksInv'
<1>1. /\ UNCHANGED <<stocked, stage, line, ordered, packed, parcel, touched, counted>>
      /\ Hold(h, l, q)
      /\ short' = IF Fits(l, q) THEN short ELSE short \cup {l}
  BY DEF HandReserve, orders
<1>2. q \in Nat /\ h \in Holds /\ h \notin Purchases BY SizesAssumption, HoldsSplit
<1>3. \A g \in Holds \ {h} : held'[g] = held[g] BY <1>1 DEF Hold, IndInv, Shape
<1>4. \A r \in Purchases : Covered(r)' BY <1>1, <1>2, <1>3, NotTheirs
<1>5. NeverOversold'
  BY <1>1, <1>2 DEF BooksInv, NeverOversold, Shelves, IndInv, Shape, Fits, Available, Hold
<1>6. GoodsConserved' BY <1>1, GoodsStay DEF BooksInv
<1>7. short' \subseteq Locations BY <1>1 DEF BooksInv, Shelves
<1> QED BY <1>1, <1>4, <1>5, <1>6, <1>7, ByHand DEF BooksInv, Shelves

\* A purchase that holds something is past its first step.
LEMMA HoldsSomething ==
    ASSUME BooksInv, NEW h \in Holds, NEW l \in Locations, held[h][l] > 0
    PROVE  h \in Purchases => stage[h] # "new"
BY DEF BooksInv, Covered, Nowhere

\* What TouchedByHand leaves.
LEMMA HandTouches ==
    ASSUME Shelves, NEW h \in Holds, TouchedByHand(h)
    PROVE  /\ touched' \in [Purchases -> Causes \cup {"nothing"}]
           /\ \A r \in Purchases : r # h => touched'[r] = touched[r]
           /\ h \in Purchases => touched'[h] # "nothing"
<1>1. CASE h \in Purchases BY <1>1, TouchKeeps DEF TouchedByHand, Causes
<1>2. CASE h \notin Purchases BY <1>2 DEF TouchedByHand, Shelves
<1> QED BY <1>1, <1>2

LEMMA HandReleaseBooks ==
    ASSUME IndInv, IndInv', BooksInv, NEW h \in Holds, NEW l \in Locations,
           HandRelease(h, l)
    PROVE  BooksInv'
<1>1. /\ UNCHANGED <<stocked, stage, line, ordered, packed, parcel, short, counted>>
      /\ held[h][l] > 0
      /\ reserved' = [reserved EXCEPT ![l] = @ - held[h][l]]
      /\ held' = [held EXCEPT ![h][l] = 0]
      /\ TouchedByHand(h)
  BY DEF HandRelease, orders
<1>2. \A g \in Holds \ {h} : held'[g] = held[g] BY <1>1 DEF IndInv, Shape
<1>3. /\ touched' \in [Purchases -> Causes \cup {"nothing"}]
      /\ \A r \in Purchases : r # h => touched'[r] = touched[r]
      /\ h \in Purchases => touched'[h] # "nothing"
  BY <1>1, HandTouches DEF BooksInv
<1>4. \A r \in Purchases : Covered(r)'
  BY <1>1, <1>2, <1>3, HoldsSomething, NotTheirs
<1>5. \A k \in Locations : reserved'[k] <= reserved[k] BY <1>1 DEF IndInv, Shape
<1>6. NeverOversold' BY <1>1, <1>5, StillThere DEF BooksInv, Shelves, IndInv, Shape
<1> QED BY <1>1, <1>3, <1>4, <1>6, Quietly

\* What happens at one location happens to what is on the shelves in all.
LEMMA ShelfMoves ==
    ASSUME stocked \in [Locations -> Int], stocked' \in [Locations -> Int],
           NEW l \in Locations, \A k \in Locations \ {l} : stocked'[k] = stocked[k]
    PROVE  /\ SumFunctionOnSet(stocked', Locations)
                = SumFunctionOnSet(stocked, Locations) + stocked'[l] - stocked[l]
           /\ SumFunctionOnSet(stocked, Locations) \in Int
<1>1. \A k \in Locations : stocked[k] \in Int /\ stocked'[k] \in Int OBVIOUS
<1> QED BY <1>1, Finite, OnSetMoves, OnSetRemove

\* Goods that come to, or leave, one shelf by hand are counted.
LEMMA CountedByHand ==
    ASSUME Shape, GoodsConserved, Shelves, stocked' \in [Locations -> Int],
           parcel' = parcel, NEW l \in Locations,
           \A k \in Locations \ {l} : stocked'[k] = stocked[k],
           counted' = counted + stocked'[l] - stocked[l]
    PROVE  GoodsConserved'
<1> DEFINE live == Units({k \in Parcels : parcel[k].state \in {"packed", "left"}})
           a == SumFunctionOnSet(stocked, Locations)
           b == SumFunctionOnSet(stocked', Locations)
<1>1. live' = live BY DEF Units
<1>2. live \in Nat BY UnitsType
<1>3. stocked \in [Locations -> Int] BY DEF Shelves
<1>4. b = a + stocked'[l] - stocked[l] /\ a \in Int BY <1>3, ShelfMoves
<1>5. counted = a + Required * live BY DEF GoodsConserved
<1>6. counted' = b + Required * live
  <2>1. Required * live \in Int /\ stocked[l] \in Int /\ stocked'[l] \in Int
    BY <1>2, <1>3, SizesAssumption
  <2> HIDE DEF live, a, b
  <2> QED BY <1>4, <1>5, <2>1
<1> QED BY <1>1, <1>6 DEF GoodsConserved

LEMMA HandFulfilBooks ==
    ASSUME IndInv, IndInv', BooksInv, NEW h \in Holds, NEW l \in Locations,
           HandFulfil(h, l)
    PROVE  BooksInv'
<1>1. /\ UNCHANGED <<stage, line, ordered, packed, parcel, short>>
      /\ held[h][l] > 0 /\ stocked[l] >= held[h][l]
      /\ stocked' = [stocked EXCEPT ![l] = @ - held[h][l]]
      /\ reserved' = [reserved EXCEPT ![l] = @ - held[h][l]]
      /\ held' = [held EXCEPT ![h][l] = 0]
      /\ counted' = counted - held[h][l]
      /\ TouchedByHand(h)
  BY DEF HandFulfil, orders
<1>2. \A g \in Holds \ {h} : held'[g] = held[g] BY <1>1 DEF IndInv, Shape
<1>3. /\ touched' \in [Purchases -> Causes \cup {"nothing"}]
      /\ \A r \in Purchases : r # h => touched'[r] = touched[r]
      /\ h \in Purchases => touched'[h] # "nothing"
  BY <1>1, HandTouches DEF BooksInv
<1>4. \A r \in Purchases : Covered(r)'
  BY <1>1, <1>2, <1>3, HoldsSomething, NotTheirs
<1>5. /\ stocked \in [Locations -> Nat] /\ reserved \in [Locations -> Int]
      /\ held[h][l] \in Nat /\ counted \in Int
  BY DEF BooksInv, Shelves, IndInv, Shape
<1>6. /\ stocked' \in [Locations -> Nat] /\ counted' \in Int
      /\ \A k \in Locations \ {l} : stocked'[k] = stocked[k]
      /\ stocked'[l] = stocked[l] - held[h][l]
  BY <1>1, <1>5
<1>7. counted' = counted + stocked'[l] - stocked[l] BY <1>1, <1>5, <1>6
<1>8. GoodsConserved'
  <2>1. stocked' \in [Locations -> Int] BY <1>6
  <2> QED BY <1>1, <1>6, <1>7, <2>1, CountedByHand DEF BooksInv, IndInv
<1>9. NeverOversold' BY <1>1, <1>5 DEF BooksInv, NeverOversold
<1> QED BY <1>1, <1>3, <1>4, <1>6, <1>8, <1>9, ByHand DEF BooksInv, Shelves

LEMMA ExpireBooks ==
    ASSUME IndInv, IndInv', BooksInv, Expire
    PROVE  BooksInv'
<1>1. /\ UNCHANGED <<stocked, stage, line, ordered, packed, parcel, touched, short, counted>>
      /\ reserved' = [l \in Locations |-> reserved[l] - GiveBack(due)[l]]
      /\ held' = [h \in Holds |-> IF h \in due THEN Nowhere ELSE held[h]]
  BY DEF Expire, orders, ghosts
<1>2. \A r \in Purchases : held'[r] = held[r]
  BY <1>1, HoldsSplit DEF IndInv, Shape
<1>3. \A r \in Purchases : Covered(r)' BY <1>1, <1>2, CoveredStays DEF BooksInv
<1>4. \A l \in Locations : reserved'[l] <= reserved[l]
  <2> SUFFICES ASSUME NEW l \in Locations PROVE reserved'[l] <= reserved[l]
    OBVIOUS
  <2> DEFINE b == [h \in Holds |-> IF h \in due THEN held[h][l] ELSE 0]
  <2>1. b \in [Holds -> Int] /\ \A h \in Holds : b[h] >= 0 BY DEF IndInv, Shape
  <2>2. AddUp(b) \in Int /\ AddUp(b) >= 0
    <3> HIDE DEF b
    <3> QED BY <2>1, AddUpType
  <2>3. reserved'[l] = reserved[l] - AddUp(b) BY <1>1 DEF GiveBack
  <2>4. reserved[l] \in Int BY DEF IndInv, Shape
  <2> HIDE DEF b
  <2> QED BY <2>2, <2>3, <2>4
<1>5. NeverOversold' BY <1>1, <1>4, StillThere DEF BooksInv, Shelves, IndInv, Shape
<1> QED BY <1>1, <1>3, <1>5, Quietly DEF BooksInv, Shelves

\* A step that writes the counters of one order and packs nothing.
LEMMA OrderWrites ==
    ASSUME IndInv, BooksInv, NEW p \in Purchases, parcel' = parcel,
           NEW s \in Seq(Nat), NEW t \in Seq(Nat),
           ordered' = [ordered EXCEPT ![p] = s], packed' = [packed EXCEPT ![p] = t],
           Len(s) = Len(t),
           \A v \in 1 .. Len(s) : t[v] <= s[v] /\ Units(OpenOf(p, v)) <= t[v],
           NeverPacked(p) \/ Len(s) >= Version(p),
           \A r \in Purchases : stage[r] \in {"done", "canceled"} =>
                                stage'[r] \in {"done", "canceled"}
    PROVE  PackedStands' /\ \A k \in Parcels : ParcelStands(k)'
<1>1. ordered'[p] = s /\ packed'[p] = t BY DEF BooksInv, PackedStands, IndInv, Shape
<1>2. \A r \in Purchases : r # p => ordered'[r] = ordered[r] /\ packed'[r] = packed[r]
  BY DEF BooksInv, PackedStands, IndInv, Shape
<1>3. \A r, v : (Units(OpenOf(r, v)))' = Units(OpenOf(r, v)) BY DEF Units, OpenOf, Open
<1>4. PackedStands'
  <2>1. packed' \in [Purchases -> Seq(Nat)] BY DEF BooksInv, PackedStands
  <2>2. \A r \in Purchases : Len(packed'[r]) = Len(ordered'[r])
    BY <1>1, <1>2 DEF BooksInv, PackedStands
  <2>3. \A r \in Purchases : \A v \in 1 .. Len(ordered'[r]) :
          packed'[r][v] <= ordered'[r][v] /\ (Units(OpenOf(r, v)))' <= packed'[r][v]
    <3> SUFFICES ASSUME NEW r \in Purchases, NEW v \in 1 .. Len(ordered'[r])
                 PROVE  /\ packed'[r][v] <= ordered'[r][v]
                        /\ (Units(OpenOf(r, v)))' <= packed'[r][v]
      OBVIOUS
    <3>1. CASE r = p BY <1>1, <1>3, <3>1
    <3>2. CASE r # p
      <4>1. v \in 1 .. Len(ordered[r]) /\ ordered'[r] = ordered[r] /\ packed'[r] = packed[r]
        BY <1>2, <3>2
      <4>2. packed[r][v] <= ordered[r][v] /\ Units(OpenOf(r, v)) <= packed[r][v]
        BY <4>1 DEF BooksInv, PackedStands
      <4> QED BY <1>3, <4>1, <4>2
    <3> QED BY <3>1, <3>2
  <2> QED BY <2>1, <2>2, <2>3 DEF PackedStands
<1>5. ASSUME NEW k \in Parcels PROVE ParcelStands(k)'
  <2>1. ParcelStands(k) BY DEF BooksInv
  <2>2. CASE parcel[k] = NoParcel BY <2>2 DEF ParcelStands, NoParcel
  <2>3. CASE parcel[k] # NoParcel
    <3>1. /\ parcel[k].of \in Purchases /\ parcel[k].state # "none"
          /\ stage[parcel[k].of] \in {"done", "canceled"}
          /\ parcel[k].version \in 1 .. Version(parcel[k].of)
      BY <2>1, <2>3 DEF ParcelStands
    <3>2. parcel[k].version \in 1 .. Len(ordered'[parcel[k].of])
      <4>1. CASE parcel[k].of = p
        <5>1. Len(s) >= Version(p) BY <4>1 DEF NeverPacked
        <5>2. Len(s) \in Nat /\ Version(p) \in Nat BY DEF Version, IndInv, Shape
        <5> QED BY <1>1, <3>1, <4>1, <5>1, <5>2
      <4>2. CASE parcel[k].of # p BY <1>2, <3>1, <4>2 DEF Version
      <4> QED BY <4>1, <4>2
    <3> QED BY <3>1, <3>2 DEF ParcelStands, Version
  <2> QED BY <2>2, <2>3
<1> QED BY <1>4, <1>5

\* An order that was never packed has nothing in parcels.
LEMMA NothingOut ==
    ASSUME NEW p, NeverPacked(p), NEW v
    PROVE  Units(OpenOf(p, v)) = 0
<1>1. OpenOf(p, v) = {} BY DEF NeverPacked, OpenOf, Open
<1> QED BY <1>1, UnitsNone

LEMMA DeliverBooks ==
    ASSUME IndInv, BooksInv, NEW p \in Purchases, NEW l \in Locations,
           NEW n \in Quantities, NEW h \in Unnamed, Deliver(p, l, n, h)
    PROVE  BooksInv'
<1> DEFINE q == n * Required
<1>1. /\ UNCHANGED <<stocked, line, parcel, short, counted>>
      /\ stage[p] = "new" /\ stage' = [stage EXCEPT ![p] = "done"]
      /\ Fits(l, q) /\ Hold(h, l, q)
      /\ ordered' = [ordered EXCEPT ![p] = <<n>>]
      /\ packed' = [packed EXCEPT ![p] = <<0>>]
      /\ Touch(p, "prepaid")
  BY DEF Deliver
<1>2. q \in Nat /\ n \in Nat /\ p # 0 BY SizesAssumption DEF Purchases
<1> HIDE DEF q
<1>3. h \in Holds /\ \A r \in Purchases : held'[r] = held[r]
  BY <1>1, HoldsSplit DEF Hold, IndInv, Shape
<1>4. stage'[p] = "done" /\ \A r \in Purchases : r # p => stage'[r] = stage[r]
  BY <1>1 DEF IndInv, Shape
<1>5. /\ touched' \in [Purchases -> Causes \cup {"nothing"}]
      /\ touched'[p] # "nothing"
      /\ \A r \in Purchases : r # p => touched'[r] = touched[r]
  BY <1>1, TouchKeeps DEF BooksInv, Causes
<1>6. PackedStands' /\ \A k \in Parcels : ParcelStands(k)'
  <2>1. NeverPacked(p) BY <1>1, <1>2, NoneYet
  <2>2. <<n>> \in Seq(Nat) /\ <<0>> \in Seq(Nat) /\ Len(<<n>>) = 1 /\ Len(<<0>>) = 1
    BY <1>2
  <2>3. \A v \in 1 .. Len(<<n>>) : <<0>>[v] <= <<n>>[v] /\ Units(OpenOf(p, v)) <= <<0>>[v]
    BY <1>2, <2>1, NothingOut
  <2>4. \A r \in Purchases : stage[r] \in {"done", "canceled"} =>
                             stage'[r] \in {"done", "canceled"}
    BY <1>1, <1>4
  <2> QED BY <1>1, <2>1, <2>2, <2>3, <2>4, OrderWrites
<1>7. \A r \in Purchases : Covered(r)'
  <2> SUFFICES ASSUME NEW r \in Purchases PROVE Covered(r)'
    OBVIOUS
  <2>1. Covered(r) BY DEF BooksInv
  <2>2. CASE r = p BY <1>4, <1>5, <2>2 DEF Covered
  <2>3. CASE r # p
    <3>1. ordered'[r] = ordered[r] /\ packed'[r] = packed[r]
      BY <1>1, <2>3 DEF BooksInv, PackedStands, IndInv, Shape
    <3> QED BY <1>1, <1>3, <1>4, <1>5, <2>1, <2>3, <3>1, CoveredStays
  <2> QED BY <2>2, <2>3
<1>8. NeverOversold' BY <1>1, <1>2, <1>3, FitsStill DEF BooksInv, IndInv, Shape
<1>9. GoodsConserved' BY <1>1, GoodsStay DEF BooksInv
<1> QED BY <1>1, <1>5, <1>6, <1>7, <1>8, <1>9 DEF BooksInv, Shelves

LEMMA PlaceBooks ==
    ASSUME IndInv, BooksInv, NEW p \in Purchases, Place(p)
    PROVE  BooksInv'
<1> DEFINE n == line[p]
<1>1. /\ UNCHANGED <<stocked, reserved, held, line, parcel, touched, short, counted>>
      /\ stage[p] = "held" /\ stage' = [stage EXCEPT ![p] = "placed"]
      /\ ordered' = [ordered EXCEPT ![p] = <<n>>]
      /\ packed' = [packed EXCEPT ![p] = <<0>>]
  BY DEF Place, level, ghosts
<1>2. n \in Nat /\ p # 0 BY DEF Purchases, IndInv, Shape
<1>3. stage'[p] = "placed" /\ \A r \in Purchases : r # p => stage'[r] = stage[r]
  BY <1>1 DEF IndInv, Shape
<1>4. ordered'[p] = <<n>> /\ packed'[p] = <<0>> /\ Version(p)' = 1
  BY <1>1 DEF BooksInv, PackedStands, IndInv, Shape, Version
<1>5. Covered(p)'
  <2>1. SUFFICES ASSUME touched[p] = "nothing" PROVE Covered(p)'
    BY <1>1, <1>3 DEF Covered
  <2>2. AllAt(p, n * Required) BY <1>1, <2>1 DEF BooksInv, Covered
  <2>3. ordered'[p][Version(p)'] = n /\ packed'[p][Version(p)'] = 0 BY <1>4
  <2>4. AllAt(p, ordered[p][Version(p)] * Required)'
    BY <1>1, <2>2, <2>3 DEF AllAt, Nowhere
  <2> QED BY <1>3, <2>3, <2>4 DEF Covered
<1> HIDE DEF n
<1>6. PackedStands' /\ \A k \in Parcels : ParcelStands(k)'
  <2>1. NeverPacked(p) BY <1>1, <1>2, NoneYet
  <2>2. <<n>> \in Seq(Nat) /\ <<0>> \in Seq(Nat) /\ Len(<<n>>) = 1 /\ Len(<<0>>) = 1
    BY <1>2
  <2>3. \A v \in 1 .. Len(<<n>>) : <<0>>[v] <= <<n>>[v] /\ Units(OpenOf(p, v)) <= <<0>>[v]
    BY <1>2, <2>1, NothingOut
  <2>4. \A r \in Purchases : stage[r] \in {"done", "canceled"} =>
                             stage'[r] \in {"done", "canceled"}
    BY <1>1, <1>3
  <2> QED BY <1>1, <2>1, <2>2, <2>3, <2>4, OrderWrites
<1>7. \A r \in Purchases : Covered(r)'
  <2> SUFFICES ASSUME NEW r \in Purchases, r # p PROVE Covered(r)'
    BY <1>5
  <2>1. Covered(r) BY DEF BooksInv
  <2>2. ordered'[r] = ordered[r] /\ packed'[r] = packed[r]
    BY <1>1 DEF BooksInv, PackedStands, IndInv, Shape
  <2> QED BY <1>1, <1>3, <2>1, <2>2, CoveredStays
<1>8. NeverOversold' BY <1>1 DEF BooksInv, NeverOversold
<1>9. GoodsConserved' BY <1>1, GoodsStay DEF BooksInv
<1> QED BY <1>1, <1>6, <1>7, <1>8, <1>9 DEF BooksInv, Shelves

\* What a next version writes at the end of an order's two columns.
LEMMA Appends ==
    ASSUME NEW s \in Seq(Nat), NEW a \in Nat
    PROVE  /\ Append(s, a) \in Seq(Nat)
           /\ Len(Append(s, a)) = Len(s) + 1
           /\ \A i \in 1 .. Len(s) : Append(s, a)[i] = s[i]
           /\ Append(s, a)[Len(s) + 1] = a
OBVIOUS

\* carry_forward: a next version of an order, with b units in parcels of the a
\* it has now.  No parcel is of it yet.
LEMMA NextVersion ==
    ASSUME IndInv, BooksInv, NEW p \in Purchases, stage[p] = "done",
           UNCHANGED <<parcel, stage>>,
           NEW a \in Nat, NEW b \in Nat, b <= a,
           ordered' = [ordered EXCEPT ![p] = Append(@, a)],
           packed' = [packed EXCEPT ![p] = Append(@, b)]
    PROVE  /\ PackedStands' /\ \A k \in Parcels : ParcelStands(k)'
           /\ ordered'[p][Version(p)'] = a /\ packed'[p][Version(p)'] = b
           /\ Uncrossed(p)' => NeverPacked(p)
           /\ \A r \in Purchases : r # p => ordered'[r] = ordered[r] /\ packed'[r] = packed[r]
<1> DEFINE s == Append(ordered[p], a)
           t == Append(packed[p], b)
           n == Version(p)
<1>1. /\ ordered[p] \in Seq(Nat) /\ packed[p] \in Seq(Nat)
      /\ Len(ordered[p]) = n /\ Len(packed[p]) = n /\ n \in Nat
  BY DEF IndInv, Shape, BooksInv, PackedStands, Version
<1>2. /\ s \in Seq(Nat) /\ t \in Seq(Nat) /\ Len(s) = n + 1 /\ Len(t) = n + 1
      /\ s[n + 1] = a /\ t[n + 1] = b
      /\ \A i \in 1 .. n : s[i] = ordered[p][i] /\ t[i] = packed[p][i]
  <2>1. /\ s \in Seq(Nat) /\ Len(s) = n + 1 /\ s[n + 1] = a
        /\ \A i \in 1 .. n : s[i] = ordered[p][i]
    <3> HIDE DEF n
    <3> QED BY <1>1, Appends
  <2>2. /\ t \in Seq(Nat) /\ Len(t) = n + 1 /\ t[n + 1] = b
        /\ \A i \in 1 .. n : t[i] = packed[p][i]
    <3> DEFINE z == packed[p]
    <3>1. z \in Seq(Nat) /\ Len(z) = n BY <1>1
    <3> HIDE DEF n, z
    <3>2. /\ Append(z, b) \in Seq(Nat) /\ Len(Append(z, b)) = n + 1
          /\ Append(z, b)[n + 1] = b /\ \A i \in 1 .. n : Append(z, b)[i] = z[i]
      BY <3>1, Appends
    <3> QED BY <3>2 DEF z
  <2> QED BY <2>1, <2>2
<1>3. ordered' = [ordered EXCEPT ![p] = s] /\ packed' = [packed EXCEPT ![p] = t] OBVIOUS
<1>4. ordered'[p] = s /\ packed'[p] = t BY <1>3 DEF IndInv, Shape, BooksInv, PackedStands
<1>5. \A k \in Parcels : parcel[k].of = p => parcel[k].version \in 1 .. n
  <2> SUFFICES ASSUME NEW k \in Parcels, parcel[k].of = p
               PROVE  parcel[k].version \in 1 .. Version(p)
    OBVIOUS
  <2>1. ParcelStands(k) BY DEF BooksInv
  <2>2. parcel[k] # NoParcel BY DEF NoParcel, Purchases
  <2> QED BY <2>1, <2>2 DEF ParcelStands
<1>6. \A v \in 1 .. n + 1 : t[v] <= s[v] /\ Units(OpenOf(p, v)) <= t[v]
  <2> SUFFICES ASSUME NEW v \in 1 .. n + 1 PROVE t[v] <= s[v] /\ Units(OpenOf(p, v)) <= t[v]
    OBVIOUS
  <2> HIDE DEF s, t
  <2>1. CASE v = n + 1
    <3>1. n + 1 \notin 1 .. n BY <1>1
    <3>2. OpenOf(p, n + 1) = {} BY <1>5, <3>1 DEF OpenOf, Open
    <3>3. Units(OpenOf(p, v)) = 0 BY <2>1, <3>2, UnitsNone
    <3> QED BY <1>2, <2>1, <3>3
  <2>2. CASE v # n + 1
    <3>1. v \in 1 .. n BY <1>1, <2>2
    <3>2. packed[p][v] <= ordered[p][v] /\ Units(OpenOf(p, v)) <= packed[p][v]
      BY <1>1, <3>1 DEF BooksInv, PackedStands
    <3> QED BY <1>2, <3>1, <3>2
  <2> QED BY <2>1, <2>2
<1> HIDE DEF s, t
<1>7. PackedStands' /\ \A k \in Parcels : ParcelStands(k)'
  <2>1. Len(s) >= Version(p) /\ 1 .. Len(s) = 1 .. n + 1 BY <1>1, <1>2
  <2>2. Len(s) = Len(t) BY <1>2
  <2> HIDE DEF n
  <2> QED BY <1>2, <1>3, <1>6, <2>1, <2>2, OrderWrites
<1>8. Version(p)' = n + 1 BY <1>2, <1>4 DEF Version
<1>9. Uncrossed(p)' => NeverPacked(p)
  <2> SUFFICES ASSUME Uncrossed(p)', NEW k \in Parcels, parcel[k].of = p PROVE FALSE
    BY DEF NeverPacked
  <2>1. parcel[k].version = n + 1 BY <1>8 DEF Uncrossed
  <2> HIDE DEF n
  <2> QED BY <1>1, <1>5, <2>1
<1>10. \A r \in Purchases : r # p => ordered'[r] = ordered[r] /\ packed'[r] = packed[r]
  BY <1>3 DEF IndInv, Shape, BooksInv, PackedStands
<1> QED BY <1>2, <1>4, <1>7, <1>8, <1>9, <1>10

\* Scaling what was bought whole is exact.
LEMMA RescaledExactly ==
    ASSUME NEW from \in Nat \ {0}, NEW to \in Nat, NEW n \in Nat
    PROVE  Rescaled(from * n, from, to) = to * n /\ Rescaled(0, from, to) = 0
<1>1. (from * n) \div from = n
  <2> DEFINE q == (from * n) \div from
  <2>1. q \in Int /\ from * n \in Nat OBVIOUS
  <2>2. from * q <= from * n /\ from * n < from * q + from OBVIOUS
  <2>3. ASSUME q > n PROVE FALSE
    <3> HIDE DEF q
    <3>1. from * (q - n) >= from BY <2>1, <2>3
    <3>2. from * (q - n) = from * q - from * n BY <2>1
    <3> QED BY <2>1, <2>2, <3>1, <3>2
  <2>4. ASSUME q < n PROVE FALSE
    <3> HIDE DEF q
    <3>1. from * (n - q) >= from BY <2>1, <2>4
    <3>2. from * (n - q) = from * n - from * q BY <2>1
    <3> QED BY <2>1, <2>2, <3>1, <3>2
  <2> HIDE DEF q
  <2>5. q = n BY <2>1, <2>3, <2>4
  <2> QED BY <2>5 DEF q
<1>2. 0 \div from = 0 OBVIOUS
<1>3. n * to = to * n /\ 0 * to = 0 OBVIOUS
<1> QED BY <1>1, <1>2, <1>3 DEF Rescaled

LEMMA EditBooks ==
    ASSUME IndInv, BooksInv, NEW p \in Purchases, NEW to \in Quantities, Edit(p, to)
    PROVE  BooksInv'
<1> DEFINE n == Version(p)
           from == ordered[p][n]
           row == [l \in Locations |-> Rescaled(held[p][l], from, to)]
<1>1. /\ stage[p] = "done"
      /\ from > 0
      /\ to >= packed[p][n]
      /\ \A l \in Locations :
            held[p][l] > 0 /\ Rescaled(held[p][l], from, to) # held[p][l] =>
                \/ Rescaled(held[p][l], from, to) < held[p][l]
                \/ Fits(l, Rescaled(held[p][l], from, to) - held[p][l])
      /\ held' = [held EXCEPT ![p] = row]
      /\ reserved' = [l \in Locations |->
           LET new == reserved[l] - held[p][l] + Rescaled(held[p][l], from, to)
           IN  IF new < 0 THEN 0 ELSE new]
      /\ ordered' = [ordered EXCEPT ![p] = Append(@, to)]
      /\ packed' = [packed EXCEPT ![p] = Append(@, packed[p][n])]
      /\ UNCHANGED <<stocked, stage, line, parcel, touched, short, counted>>
  BY DEF Edit, ghosts
<1>2. to \in Nat BY SizesAssumption
<1>3. /\ ordered[p] \in Seq(Nat) /\ packed[p] \in Seq(Nat) /\ n \in 1 .. Len(ordered[p])
      /\ Len(packed[p]) = Len(ordered[p])
  <2>1. ordered[p] \in Seq(Nat) /\ ordered[p] # <<>>
    BY <1>1 DEF IndInv, Shape, OrdersStand
  <2>2. packed[p] \in Seq(Nat) /\ Len(packed[p]) = Len(ordered[p])
    BY DEF BooksInv, PackedStands
  <2> QED BY <2>1, <2>2 DEF Version
<1>4. from \in Nat \ {0} /\ packed[p][n] \in Nat
  <2> HIDE DEF n
  <2>1. ordered[p][n] \in Nat /\ packed[p][n] \in Nat BY <1>3
  <2> QED BY <1>1, <2>1
<1>5. /\ PackedStands' /\ \A k \in Parcels : ParcelStands(k)'
      /\ ordered'[p][Version(p)'] = to /\ packed'[p][Version(p)'] = packed[p][n]
      /\ Uncrossed(p)' => NeverPacked(p)
      /\ \A r \in Purchases : r # p => ordered'[r] = ordered[r] /\ packed'[r] = packed[r]
  <2> DEFINE b == packed[p][n]
  <2>1. b \in Nat /\ b <= to /\ packed' = [packed EXCEPT ![p] = Append(@, b)]
    BY <1>1, <1>2, <1>4
  <2> HIDE DEF b, n, from, row
  <2>2. /\ PackedStands' /\ \A k \in Parcels : ParcelStands(k)'
        /\ ordered'[p][Version(p)'] = to /\ packed'[p][Version(p)'] = b
        /\ Uncrossed(p)' => NeverPacked(p)
        /\ \A r \in Purchases : r # p => ordered'[r] = ordered[r] /\ packed'[r] = packed[r]
    BY <1>1, <1>2, <2>1, NextVersion
  <2> QED BY <2>2 DEF b
<1>6. held'[p] = row /\ \A r \in Purchases : r # p => held'[r] = held[r]
  BY <1>1, HoldsSplit DEF IndInv, Shape
<1> HIDE DEF n, from
<1>7. Covered(p)'
  <2>1. SUFFICES ASSUME touched[p] = "nothing", NeverPacked(p) PROVE Covered(p)'
    <3>1. NeverPacked(p)' => NeverPacked(p) BY <1>1 DEF NeverPacked
    <3> QED BY <1>1, <1>5, <3>1 DEF Covered
  <2>2. packed[p][n] = 0 /\ AllAt(p, from * Required)
    BY <1>1, <2>1 DEF BooksInv, Covered, n, from
  <2>3. PICK l \in Locations : held[p] = [Nowhere EXCEPT ![l] = from * Required]
    BY <2>2 DEF AllAt
  <2>4. \A k \in Locations : held[p][k] = IF k = l THEN from * Required ELSE 0
    BY <2>3 DEF Nowhere
  <2>5. Rescaled(from * Required, from, to) = to * Required /\ Rescaled(0, from, to) = 0
    BY <1>2, <1>4, SizesAssumption, RescaledExactly
  <2>6. \A k \in Locations : row[k] = IF k = l THEN to * Required ELSE 0
    BY <2>4, <2>5
  <2>7. row = [Nowhere EXCEPT ![l] = to * Required]
    <3>1. row = [k \in Locations |-> row[k]] OBVIOUS
    <3>2. [Nowhere EXCEPT ![l] = to * Required]
            = [k \in Locations |-> IF k = l THEN to * Required ELSE 0]
      BY DEF Nowhere
    <3> HIDE DEF row
    <3> QED BY <2>6, <3>1, <3>2
  <2> HIDE DEF row
  <2>8. AllAt(p, ordered[p][Version(p)] * Required)'
    BY <1>5, <1>6, <2>7 DEF AllAt, Nowhere
  <2>9. SumFunctionOnSet(held'[p], Locations) = to * Required
    <3>1. to * Required \in Nat BY <1>2, SizesAssumption
    <3> QED BY <1>6, <2>7, <3>1, AllAtSum
  <2>10. (to - 0) * Required = to * Required BY <1>2, SizesAssumption
  <2> QED BY <1>1, <1>5, <2>2, <2>8, <2>9, <2>10 DEF Covered
<1>8. \A r \in Purchases : Covered(r)'
  <2> SUFFICES ASSUME NEW r \in Purchases, r # p PROVE Covered(r)'
    BY <1>7
  <2>1. Covered(r) BY DEF BooksInv
  <2> QED BY <1>1, <1>5, <1>6, <2>1, CoveredStays
<1>9. NeverOversold'
  <2> SUFFICES ASSUME NEW l \in Locations, l \notin short PROVE reserved'[l] <= stocked[l]
    BY <1>1 DEF NeverOversold
  <2> DEFINE q == held[p][l]
             u == Rescaled(held[p][l], from, to)
  <2>1. /\ reserved[l] \in Int /\ stocked[l] \in Nat /\ q \in Nat
        /\ reserved[l] <= stocked[l]
    BY HoldsSplit DEF BooksInv, Shelves, NeverOversold, IndInv, Shape
  <2>2. u \in Int /\ (q = 0 => u = 0)
    <3>1. q \div from \in Int BY <1>4, <2>1
    <3>2. u \in Int BY <1>2, <3>1 DEF Rescaled
    <3>3. Rescaled(0, from, to) = 0 BY <1>2, <1>4, SizesAssumption, RescaledExactly
    <3> QED BY <3>2, <3>3
  <2>3. reserved'[l] = IF reserved[l] - q + u < 0 THEN 0 ELSE reserved[l] - q + u
    BY <1>1
  <2>4. q > 0 /\ u # q => u < q \/ stocked[l] - reserved[l] >= u - q
    BY <1>1 DEF Fits, Available
  <2> HIDE DEF q, u
  <2> QED BY <2>1, <2>2, <2>3, <2>4
<1>10. GoodsConserved' BY <1>1, GoodsStay DEF BooksInv
<1> QED BY <1>1, <1>5, <1>8, <1>9, <1>10 DEF BooksInv, Shelves

LEMMA RemoveBooks ==
    ASSUME IndInv, IndInv', BooksInv, NEW p \in Purchases, Remove(p)
    PROVE  BooksInv'
<1>1. /\ stage[p] = "done"
      /\ LetGo(p)
      /\ ordered' = [ordered EXCEPT ![p] = Append(@, 0)]
      /\ packed' = [packed EXCEPT ![p] = Append(@, 0)]
      /\ UNCHANGED <<stocked, stage, line, parcel, touched, short, counted>>
  BY DEF Remove, ghosts
<1>2. /\ PackedStands' /\ \A k \in Parcels : ParcelStands(k)'
      /\ ordered'[p][Version(p)'] = 0 /\ packed'[p][Version(p)'] = 0
      /\ \A r \in Purchases : r # p => ordered'[r] = ordered[r] /\ packed'[r] = packed[r]
  <2>0. PICK a \in Nat, b \in Nat : a = 0 /\ b = 0 OBVIOUS
  <2>1. b <= a /\ UNCHANGED <<parcel, stage>> /\ stage[p] = "done" BY <1>1, <2>0
  <2>2. /\ ordered' = [ordered EXCEPT ![p] = Append(@, a)]
        /\ packed' = [packed EXCEPT ![p] = Append(@, b)]
    BY <1>1, <2>0
  <2>3. /\ PackedStands' /\ \A k \in Parcels : ParcelStands(k)'
        /\ ordered'[p][Version(p)'] = a /\ packed'[p][Version(p)'] = b
        /\ Uncrossed(p)' => NeverPacked(p)
        /\ \A r \in Purchases : r # p => ordered'[r] = ordered[r] /\ packed'[r] = packed[r]
    BY <2>1, <2>2, NextVersion
  <2> QED BY <2>0, <2>3
<1>3. held'[p] = Nowhere /\ \A r \in Purchases : r # p => held'[r] = held[r]
  BY <1>1, HoldsSplit DEF LetGo, IndInv, Shape
<1>4. Covered(p)'
  <2>1. PICK l \in Locations : TRUE BY HoldsSplit
  <2>2. Nowhere = [Nowhere EXCEPT ![l] = 0] BY DEF Nowhere
  <2>3. 0 * Required = 0 /\ (0 - 0) * Required = 0 BY SizesAssumption
  <2>4. AllAt(p, ordered[p][Version(p)] * Required)'
    BY <1>2, <1>3, <2>2, <2>3 DEF AllAt, Nowhere
  <2>5. SumFunctionOnSet(held'[p], Locations) = 0 BY <1>3, <2>2, AllAtSum
  <2> QED BY <1>1, <1>2, <2>3, <2>4, <2>5 DEF Covered
<1>5. \A r \in Purchases : Covered(r)'
  <2> SUFFICES ASSUME NEW r \in Purchases, r # p PROVE Covered(r)'
    BY <1>4
  <2>1. Covered(r) BY DEF BooksInv
  <2> QED BY <1>1, <1>2, <1>3, <2>1, CoveredStays
<1>6. \A l \in Locations : reserved'[l] <= reserved[l]
  BY <1>1, HoldsSplit DEF LetGo, IndInv, Shape
<1>7. NeverOversold' BY <1>1, <1>6, StillThere DEF BooksInv, Shelves, IndInv, Shape
<1>8. GoodsConserved' BY <1>1, GoodsStay DEF BooksInv
<1> QED BY <1>1, <1>2, <1>5, <1>7, <1>8 DEF BooksInv, Shelves

\* The parcels that were packed and not cancelled: what is in them is on no shelf.
Live == {k \in Parcels : parcel[k].state \in {"packed", "left"}}

\* One parcel of one version of an order is packed, cancelled or shipped.
LEMMA ParcelMoves ==
    ASSUME IndInv, Shape', PackedStands, ordered' = ordered,
           NEW p \in Purchases, NEW v \in 1 .. Len(ordered[p]), NEW k \in Parcels,
           \A j \in Parcels \ {k} : parcel'[j] = parcel[j],
           parcel'[k].of = p, parcel'[k].version = v,
           parcel[k] = NoParcel \/ (parcel[k].of = p /\ parcel[k].version = v),
           NEW x \in Nat, x <= ordered[p][v], packed' = [packed EXCEPT ![p][v] = x],
           (Units(OpenOf(p, v)))' <= x
    PROVE  PackedStands'
<1>1. /\ packed[p] \in Seq(Nat) /\ Len(packed[p]) = Len(ordered[p])
      /\ packed \in [Purchases -> Seq(Nat)]
  BY DEF PackedStands
<1>2. /\ [packed[p] EXCEPT ![v] = x] \in Seq(Nat)
      /\ Len([packed[p] EXCEPT ![v] = x]) = Len(packed[p])
      /\ \A u \in 1 .. Len(ordered[p]) :
            [packed[p] EXCEPT ![v] = x][u] = IF u = v THEN x ELSE packed[p][u]
  BY <1>1
<1>3. packed'[p] = [packed[p] EXCEPT ![v] = x] BY <1>1
<1>4. \A r \in Purchases : r # p => packed'[r] = packed[r] BY <1>1
<1>5. packed' \in [Purchases -> Seq(Nat)] BY <1>1, <1>2
<1>6. \A r \in Purchases : Len(packed'[r]) = Len(ordered'[r])
  BY <1>1, <1>2, <1>3, <1>4 DEF PackedStands
<1>7. ASSUME NEW r \in Purchases, NEW u, r # p \/ u # v
      PROVE  (Units(OpenOf(r, u)))' = Units(OpenOf(r, u))
  <2>1. k \notin OpenOf(r, u) BY <1>7 DEF OpenOf, Open, NoParcel
  <2>2. k \notin OpenOf(r, u)' BY <1>7 DEF OpenOf, Open
  <2>3. OpenOf(r, u)' = OpenOf(r, u) BY <2>1, <2>2 DEF OpenOf, Open
  <2> DEFINE ks == OpenOf(r, u)
  <2>4. ks \in SUBSET Parcels /\ \A j \in ks : parcel'[j].quantity = parcel[j].quantity
    BY <2>1 DEF OpenOf, Open
  <2>5. (Units(OpenOf(r, u)))' = SumFunctionOnSet([j \in Parcels |-> parcel'[j].quantity], ks)
    BY <2>3 DEF Units
  <2>6. Shape BY DEF IndInv
  <2> HIDE DEF ks
  <2>7. SumFunctionOnSet([j \in Parcels |-> parcel'[j].quantity], ks) = Units(ks)
    BY <2>4, <2>6, UnitsStay
  <2> QED BY <2>5, <2>7 DEF ks
<1>8. \A r \in Purchases : \A u \in 1 .. Len(ordered'[r]) :
        packed'[r][u] <= ordered'[r][u] /\ (Units(OpenOf(r, u)))' <= packed'[r][u]
  <2> SUFFICES ASSUME NEW r \in Purchases, NEW u \in 1 .. Len(ordered[r])
               PROVE  /\ packed'[r][u] <= ordered[r][u]
                      /\ (Units(OpenOf(r, u)))' <= packed'[r][u]
    OBVIOUS
  <2>1. CASE r = p /\ u = v BY <1>2, <1>3, <2>1
  <2>2. CASE r # p \/ u # v
    <3>1. packed'[r][u] = packed[r][u] BY <1>2, <1>3, <1>4, <2>2
    <3>2. packed[r][u] <= ordered[r][u] /\ Units(OpenOf(r, u)) <= packed[r][u]
      BY DEF PackedStands
    <3> QED BY <1>7, <2>2, <3>1, <3>2
  <2> QED BY <2>1, <2>2
<1> QED BY <1>5, <1>6, <1>8 DEF PackedStands

\* One more parcel in a set of them.
LEMMA OneParcelMore ==
    ASSUME Shape, Shape', NEW ks \in SUBSET Parcels, NEW k \in Parcels, k \notin ks,
           \A j \in ks : parcel'[j].quantity = parcel[j].quantity
    PROVE  SumFunctionOnSet([j \in Parcels |-> parcel'[j].quantity], ks \cup {k})
               = Units(ks) + parcel'[k].quantity
<1> DEFINE g == [j \in Parcels |-> parcel'[j].quantity]
           ls == ks \cup {k}
<1>1. \A j \in ls : g[j] \in Int BY DEF Shape, ParcelStates
<1>2. IsFiniteSet(ls) BY Finite, FS_Subset
<1>3. SumFunctionOnSet(g, ks) = Units(ks) BY UnitsStay
<1>4. Units(ks) \in Nat BY UnitsType
<1>5. k \in ls /\ ls \ {k} = ks /\ g[k] = parcel'[k].quantity OBVIOUS
<1>6. g[k] \in Int BY <1>1, <1>5
<1>7. SumFunctionOnSet(g, ls) = g[k] + SumFunctionOnSet(g, ls \ {k})
  <2> HIDE DEF g, ls
  <2> QED BY <1>1, <1>2, <1>5, OnSetRemove
<1>8. SumFunctionOnSet(g, ls) = Units(ks) + parcel'[k].quantity
  <2> DEFINE a == Units(ks)
             b == SumFunctionOnSet(g, ls)
  <2>1. b = g[k] + a /\ a \in Int /\ g[k] = parcel'[k].quantity
    <3> HIDE DEF g, ls
    <3>1. SumFunctionOnSet(g, ls \ {k}) = SumFunctionOnSet(g, ks) BY Zenon, <1>5
    <3> QED BY <1>3, <1>4, <1>5, <1>7, <3>1
  <2> HIDE DEF a, b, g, ls
  <2>2. b = a + parcel'[k].quantity BY <1>6, <2>1
  <2> QED BY <2>2 DEF a, b
<1> QED BY <1>8

\* One parcel fewer.
LEMMA OneParcelLess ==
    ASSUME Shape, Shape', NEW ks \in SUBSET Parcels, NEW k \in ks,
           \A j \in ks : parcel'[j].quantity = parcel[j].quantity
    PROVE  SumFunctionOnSet([j \in Parcels |-> parcel'[j].quantity], ks \ {k})
               = Units(ks) - parcel[k].quantity
<1> DEFINE ls == ks \ {k}
<1>1. SumFunctionOnSet([j \in Parcels |-> parcel'[j].quantity], ls) = Units(ls)
  <2>1. ls \in SUBSET Parcels /\ \A j \in ls : parcel'[j].quantity = parcel[j].quantity
    OBVIOUS
  <2> HIDE DEF ls
  <2> QED BY <2>1, UnitsStay
<1>2. Units(ks) = parcel[k].quantity + Units(ls) BY UnitsType
<1>3. Units(ls) \in Nat /\ parcel[k].quantity \in Nat
  <2>1. ls \in SUBSET Parcels OBVIOUS
  <2> HIDE DEF ls
  <2> QED BY <2>1, UnitsType DEF Shape, ParcelStates
<1> HIDE DEF ls
<1>4. SumFunctionOnSet([j \in Parcels |-> parcel'[j].quantity], ls)
        = Units(ks) - parcel[k].quantity
  BY <1>1, <1>2, <1>3
<1> QED BY <1>4 DEF ls

\* What a hold gains or loses at one place it gains or loses in all.
LEMMA HeldMoves ==
    ASSUME Shape, Shape', NEW h \in Holds, NEW l \in Locations,
           \A k \in Locations \ {l} : held'[h][k] = held[h][k]
    PROVE  /\ SumFunctionOnSet(held'[h], Locations)
                = SumFunctionOnSet(held[h], Locations) + held'[h][l] - held[h][l]
           /\ SumFunctionOnSet(held[h], Locations) \in Int
<1> DEFINE f == held[h]
           g == held'[h]
<1>1. \A k \in Locations : f[k] \in Int /\ g[k] \in Int BY DEF Shape
<1>2. \A k \in Locations \ {l} : g[k] = f[k] OBVIOUS
<1> HIDE DEF f, g
<1>3. SumFunctionOnSet(g, Locations) = SumFunctionOnSet(f, Locations) + g[l] - f[l]
  BY <1>1, <1>2, Finite, OnSetMoves
<1>4. SumFunctionOnSet(f, Locations) \in Int BY <1>1, Finite, OnSetRemove
<1> QED BY <1>3, <1>4 DEF f, g

LEMMA PackBooks ==
    ASSUME IndInv, IndInv', BooksInv, NEW p \in Purchases, NEW l \in Locations,
           NEW n \in Quantities, NEW k \in Parcels, Pack(p, l, n, k)
    PROVE  BooksInv'
<1> DEFINE q == n * Required
<1>0. PICK v \in 1 .. Len(ordered[p]) : v = Version(p)
  <2>1. ordered[p] \in Seq(Nat) /\ ordered[p] # <<>>
    BY DEF Pack, IndInv, Shape, OrdersStand
  <2> QED BY <2>1 DEF Version
<1>1. /\ stage[p] \in {"done", "canceled"}
      /\ parcel[k] = NoParcel
      /\ packed[p][v] + n <= ordered[p][v]
      /\ stocked[l] >= q
      /\ stocked' = [stocked EXCEPT ![l] = @ - q]
      /\ IF Taken(p, l, q)
           THEN /\ reserved' = [reserved EXCEPT ![l] = @ - q]
                /\ held' = [held EXCEPT ![p][l] = @ - q]
                /\ touched' = touched
           ELSE /\ UNCHANGED <<reserved, held>>
                /\ Touch(p, "elsewhere")
      /\ short' = IF ~Taken(p, l, q) /\ Available(l) < q THEN short \cup {l} ELSE short
      /\ packed' = [packed EXCEPT ![p][v] = @ + n]
      /\ parcel' = [parcel EXCEPT ![k] =
           [of |-> p, version |-> v, at |-> l, quantity |-> n, state |-> "packed"]]
      /\ UNCHANGED <<stage, line, ordered, counted>>
  BY <1>0 DEF Pack, LeftToPack
<1>2. n \in Nat /\ q \in Nat BY SizesAssumption
<1>3. /\ ordered[p] \in Seq(Nat) /\ v \in 1 .. Len(ordered[p])
      /\ packed[p] \in Seq(Nat) /\ Len(packed[p]) = Len(ordered[p])
  BY DEF IndInv, Shape, BooksInv, PackedStands
<1>4. packed[p][v] \in Nat /\ ordered[p][v] \in Nat BY <1>3
<1>5. /\ parcel'[k] = [of |-> p, version |-> v, at |-> l, quantity |-> n,
                       state |-> "packed"]
      /\ \A j \in Parcels \ {k} : parcel'[j] = parcel[j]
  BY <1>1 DEF IndInv, Shape
<1>6. Shape /\ Shape' BY DEF IndInv
<1>7. parcel[k].state = "none" /\ parcel[k].of = 0 /\ p # 0
  BY <1>1 DEF NoParcel, Purchases
<1>8. PackedStands'
  <2> PICK x \in Nat : x = packed[p][v] + n BY <1>2, <1>4
  <2> DEFINE ks == OpenOf(p, v)
  <2>1. (OpenOf(p, v))' = ks \cup {k}
    BY <1>5 DEF OpenOf, Open
  <2>2. ks \in SUBSET Parcels /\ k \notin ks
        /\ \A j \in ks : parcel'[j].quantity = parcel[j].quantity
    BY <1>5, <1>7 DEF OpenOf, Open
  <2>3. (Units(OpenOf(p, v)))' = Units(ks) + n
    <3>1. (Units(OpenOf(p, v)))'
            = SumFunctionOnSet([j \in Parcels |-> parcel'[j].quantity], ks \cup {k})
      BY <2>1 DEF Units
    <3>2. parcel'[k].quantity = n BY <1>5
    <3> HIDE DEF ks
    <3> QED BY <1>6, <2>2, <3>1, <3>2, OneParcelMore
  <2>4. Units(ks) <= packed[p][v] BY <1>3 DEF BooksInv, PackedStands
  <2>5. Units(ks) \in Nat
    <3> HIDE DEF ks
    <3> QED BY <1>6, <2>2, UnitsType
  <2> HIDE DEF ks
  <2>7. x \in Nat /\ x <= ordered[p][v] /\ (Units(OpenOf(p, v)))' <= x
    BY <1>1, <1>2, <1>4, <2>3, <2>4, <2>5
  <2>8. packed' = [packed EXCEPT ![p][v] = x] BY <1>1
  <2>9. parcel'[k].of = p /\ parcel'[k].version = v BY <1>5
  <2>10. ordered' = ordered /\ PackedStands BY <1>1 DEF BooksInv
  <2>11. v \in 1 .. Len(ordered[p]) BY <1>3
  <2>12. \A j \in Parcels \ {k} : parcel'[j] = parcel[j] BY <1>5
  <2>13. parcel[k] = NoParcel \/ (parcel[k].of = p /\ parcel[k].version = v) BY <1>1
  <2> QED BY <1>6, <2>7, <2>8, <2>9, <2>10, <2>11, <2>12, <2>13, ParcelMoves
<1> HIDE DEF q
<1>9. stocked \in [Locations -> Nat] /\ stocked' \in [Locations -> Nat]
  BY <1>1, <1>2 DEF BooksInv, Shelves
<1>10. GoodsConserved'
  <2> DEFINE a == SumFunctionOnSet(stocked, Locations)
             b == SumFunctionOnSet(stocked', Locations)
  <2>1. b = a - q /\ a \in Int
    <3>1. stocked \in [Locations -> Int] /\ stocked' \in [Locations -> Int]
      BY <1>9
    <3>2. stocked'[l] = stocked[l] - q /\ \A j \in Locations \ {l} : stocked'[j] = stocked[j]
      BY <1>1, <1>9
    <3>3. b = a + stocked'[l] - stocked[l] /\ a \in Int BY <3>1, <3>2, ShelfMoves
    <3> HIDE DEF a, b
    <3> QED BY <1>2, <1>9, <3>2, <3>3
  <2>2. (Units(Live))' = Units(Live) + n
    <3> DEFINE ks == Live
    <3>1. Live' = ks \cup {k} BY <1>5 DEF Live
    <3>2. ks \in SUBSET Parcels /\ k \notin ks
          /\ \A j \in ks : parcel'[j].quantity = parcel[j].quantity
      BY <1>5, <1>7 DEF Live
    <3>3. (Units(Live))'
            = SumFunctionOnSet([j \in Parcels |-> parcel'[j].quantity], ks \cup {k})
      BY <3>1 DEF Units
    <3>4. parcel'[k].quantity = n BY <1>5
    <3> HIDE DEF ks
    <3>5. (Units(Live))' = Units(ks) + n BY <1>6, <3>2, <3>3, <3>4, OneParcelMore
    <3> QED BY <3>5 DEF ks
  <2>3. Units(Live) \in Nat BY <1>6, UnitsType DEF Live
  <2>4. counted = a + Required * Units(Live) BY DEF BooksInv, GoodsConserved, Live
  <2>5. counted' = b + Required * (Units(Live))'
    <3> DEFINE u == Units(Live)
    <3>1. (Units(Live))' = u + n /\ counted' = a + Required * u
      BY <1>1, <2>2, <2>4
    <3>2. u \in Nat BY <2>3
    <3>3. Required * (u + n) = Required * u + q
      <4> HIDE DEF u
      <4> QED BY <1>2, <3>2, SizesAssumption DEF q
    <3>4. Required * u \in Int BY <3>2, SizesAssumption
    <3> HIDE DEF u, a, b
    <3> QED BY <1>2, <2>1, <3>1, <3>3, <3>4
  <2> QED BY <2>5 DEF GoodsConserved, Live
<1>11. NeverOversold'
  <2>1. CASE Taken(p, l, q)
    <3>1. reserved' = [reserved EXCEPT ![l] = reserved[l] - q] /\ short' = short
      BY <1>1, <2>1
    <3> QED BY <1>1, <1>2, <1>9, <3>1 DEF BooksInv, NeverOversold, IndInv, Shape
  <2>2. CASE ~Taken(p, l, q)
    <3>1. /\ reserved' = reserved
          /\ short' = IF Available(l) < q THEN short \cup {l} ELSE short
      BY <1>1, <2>2
    <3> QED BY <1>1, <1>2, <1>9, <3>1
            DEF BooksInv, NeverOversold, IndInv, Shape, Available
  <2> QED BY <2>1, <2>2
<1>12. ASSUME NEW j \in Parcels PROVE ParcelStands(j)'
  <2>1. CASE j = k BY <1>0, <1>1, <1>3, <1>5, <2>1 DEF ParcelStands, Version
  <2>2. CASE j # k
    <3>1. ParcelStands(j) BY DEF BooksInv
    <3> QED BY <1>1, <1>5, <2>2, <3>1 DEF ParcelStands, Version, NoParcel
  <2> QED BY <2>1, <2>2
<1>13. touched' \in [Purchases -> Causes \cup {"nothing"}]
       /\ (\A r \in Purchases : r # p => touched'[r] = touched[r] /\ held'[r] = held[r])
       /\ (touched'[p] = "nothing" => touched[p] = "nothing" /\ Taken(p, l, q))
  <2>1. CASE Taken(p, l, q)
    <3>1. touched' = touched /\ held' = [held EXCEPT ![p][l] = @ - q] BY <1>1, <2>1
    <3> QED BY <2>1, <3>1 DEF BooksInv, Shelves, IndInv, Shape
  <2>2. CASE ~Taken(p, l, q)
    <3>1. held' = held /\ Touch(p, "elsewhere") BY <1>1, <2>2
    <3>2. Shelves /\ "elsewhere" \in Causes \cup {"nothing"} BY DEF BooksInv, Causes
    <3> QED BY <3>1, <3>2, TouchKeeps
  <2> QED BY <2>1, <2>2
<1>14. Covered(p)'
  <2>1. ~ NeverPacked(p)' BY <1>5 DEF NeverPacked
  <2>2. Version(p)' = v BY <1>0, <1>1 DEF Version
  <2>3. SUFFICES ASSUME touched'[p] = "nothing", stage[p] = "done", Uncrossed(p)'
                 PROVE  SumFunctionOnSet(held'[p], Locations)
                          = (ordered[p][v] - packed'[p][v]) * Required
    BY <1>1, <2>1, <2>2 DEF Covered
  <2>4. Uncrossed(p)
    <3>1. \A j \in Parcels : parcel[j].of = p => parcel'[j] = parcel[j] BY <1>5, <1>7
    <3> QED BY <1>1, <2>3, <3>1 DEF Uncrossed, Version
  <2>5. SumFunctionOnSet(held[p], Locations) = (ordered[p][v] - packed[p][v]) * Required
    BY <1>0, <1>13, <2>3, <2>4 DEF BooksInv, Covered
  <2>6. p \in Holds /\ held[p] \in [Locations -> Nat] BY HoldsSplit DEF IndInv, Shape
  <2>7. held' = [held EXCEPT ![p] = [held[p] EXCEPT ![l] = held[p][l] - q]]
    BY <1>1, <1>13, <2>3
  <2>8. held'[p] = [held[p] EXCEPT ![l] = held[p][l] - q] BY <2>6, <2>7 DEF IndInv, Shape
  <2>9. held'[p][l] = held[p][l] - q /\ \A j \in Locations \ {l} : held'[p][j] = held[p][j]
    BY <2>6, <2>8
  <2>10. packed'[p][v] = packed[p][v] + n
    <3>1. packed' = [packed EXCEPT ![p] = [packed[p] EXCEPT ![v] = packed[p][v] + n]]
      BY <1>1
    <3>2. packed \in [Purchases -> Seq(Nat)] BY DEF BooksInv, PackedStands
    <3>3. packed'[p] = [packed[p] EXCEPT ![v] = packed[p][v] + n] BY <3>1, <3>2
    <3> QED BY <1>3, <3>3
  <2>11. /\ SumFunctionOnSet(held'[p], Locations)
              = SumFunctionOnSet(held[p], Locations) + held'[p][l] - held[p][l]
         /\ SumFunctionOnSet(held[p], Locations) \in Int
    BY <1>6, <2>6, <2>9, HeldMoves
  <2>12. held[p][l] \in Int BY <2>6
  <2> DEFINE a == ordered[p][v]
             b == packed[p][v]
             c == (a - b) * Required
             d == SumFunctionOnSet(held[p], Locations)
             e == SumFunctionOnSet(held'[p], Locations)
  <2>13. (a - (b + n)) * Required = (a - b) * Required - q
    <3>1. a \in Int /\ b \in Int BY <1>4
    <3> HIDE DEF a, b
    <3> QED BY <1>2, <3>1, SizesAssumption DEF q
  <2>14. d = c /\ e = d + held'[p][l] - held[p][l] /\ d \in Int BY <2>5, <2>11
  <2>15. (a - packed'[p][v]) * Required = c - q BY <2>10, <2>13
  <2>16. e = (a - packed'[p][v]) * Required
    <3> HIDE DEF a, c, d, e
    <3> QED BY <1>2, <2>9, <2>12, <2>14, <2>15
  <2> QED BY <2>16
<1>15. \A r \in Purchases : Covered(r)'
  <2> SUFFICES ASSUME NEW r \in Purchases, r # p PROVE Covered(r)'
    BY <1>14
  <2>1. Covered(r) BY DEF BooksInv
  <2>2. \A j \in Parcels : parcel[j].of = r =>
           parcel'[j].of = r /\ parcel'[j].version = parcel[j].version
    <3>1. r # 0 BY DEF Purchases
    <3> QED BY <1>5, <1>7, <3>1
  <2>3. packed'[r] = packed[r] BY <1>1 DEF BooksInv, PackedStands
  <2> QED BY <1>1, <1>13, <2>1, <2>2, <2>3, CoveredStays
<1>16. Shelves'
  <2>1. short' \subseteq Locations BY <1>1 DEF BooksInv, Shelves
  <2>2. counted' \in Int BY <1>1 DEF BooksInv, Shelves
  <2> QED BY <1>9, <1>13, <2>1, <2>2 DEF Shelves
<1> QED BY <1>8, <1>10, <1>11, <1>12, <1>15, <1>16 DEF BooksInv

\* A parcel that was packed and stops being so.
LEMMA ParcelGoes ==
    ASSUME IndInv, Shape', BooksInv, ordered' = ordered, stage' = stage,
           NEW k \in Parcels, parcel[k].state = "packed", NEW s \in {"left", "canceled"},
           parcel' = [parcel EXCEPT ![k].state = s],
           NEW p, parcel[k].of = p, NEW v, parcel[k].version = v
    PROVE  /\ p \in Purchases /\ stage[p] \in {"done", "canceled"}
           /\ v \in 1 .. Len(ordered[p])
           /\ parcel[k].quantity \in Nat /\ packed[p][v] \in Nat /\ ordered[p][v] \in Nat
           /\ parcel[k].quantity <= Units(OpenOf(p, v))
           /\ Units(OpenOf(p, v)) \in Nat
           /\ Units(OpenOf(p, v)) <= packed[p][v] /\ packed[p][v] <= ordered[p][v]
           /\ (Units(OpenOf(p, v)))' = Units(OpenOf(p, v)) - parcel[k].quantity
           /\ \A j \in Parcels : ParcelStands(j)'
           /\ parcel'[k].state = s
           /\ \A j \in Parcels : /\ parcel'[j].of = parcel[j].of
                                 /\ parcel'[j].version = parcel[j].version
                                 /\ parcel'[j].quantity = parcel[j].quantity
           /\ \A j \in Parcels \ {k} : parcel'[j] = parcel[j]
<1>1. ParcelStands(k) /\ parcel[k] # NoParcel BY DEF BooksInv, NoParcel
<1>2. /\ p \in Purchases /\ stage[p] \in {"done", "canceled"}
      /\ v \in 1 .. Len(ordered[p])
  BY <1>1 DEF ParcelStands, Version
<1>3. Shape /\ Shape' BY DEF IndInv
<1>4. parcel[k].quantity \in Nat BY <1>3 DEF Shape, ParcelStates
<1>5. ordered[p] \in Seq(Nat) /\ packed[p] \in Seq(Nat) /\ Len(packed[p]) = Len(ordered[p])
  BY <1>2, <1>3 DEF Shape, BooksInv, PackedStands
<1>6. packed[p][v] \in Nat /\ ordered[p][v] \in Nat BY <1>2, <1>5
<1>7. Units(OpenOf(p, v)) <= packed[p][v] /\ packed[p][v] <= ordered[p][v]
  BY <1>2 DEF BooksInv, PackedStands
<1>8. /\ parcel'[k].state = s
      /\ \A j \in Parcels : /\ parcel'[j].of = parcel[j].of
                            /\ parcel'[j].version = parcel[j].version
                            /\ parcel'[j].quantity = parcel[j].quantity
      /\ \A j \in Parcels \ {k} : parcel'[j] = parcel[j]
  BY <1>3 DEF Shape, ParcelStates
<1> DEFINE ks == OpenOf(p, v)
<1>9. ks \in SUBSET Parcels /\ k \in ks BY DEF OpenOf, Open
<1>10. (OpenOf(p, v))' = ks \ {k} BY <1>8 DEF OpenOf, Open
<1>11. (Units(OpenOf(p, v)))'
         = SumFunctionOnSet([j \in Parcels |-> parcel'[j].quantity], ks \ {k})
  BY <1>10 DEF Units
<1>12. \A j \in ks : parcel'[j].quantity = parcel[j].quantity BY <1>8, <1>9
<1>13. /\ (Units(OpenOf(p, v)))' = Units(ks) - parcel[k].quantity
       /\ Units(ks) \in Nat /\ parcel[k].quantity <= Units(ks)
  <2> HIDE DEF ks
  <2>1. (Units(OpenOf(p, v)))' = Units(ks) - parcel[k].quantity
    BY <1>3, <1>9, <1>11, <1>12, OneParcelLess
  <2>2. Units(ks) \in Nat /\ Units(ks) = parcel[k].quantity + Units(ks \ {k})
    BY <1>3, <1>9, UnitsType
  <2>3. ks \ {k} \in SUBSET Parcels BY <1>9
  <2>4. Units(ks \ {k}) \in Nat BY <1>3, <2>3, UnitsType
  <2> QED BY <1>4, <2>1, <2>2, <2>4
<1>14. \A j \in Parcels : ParcelStands(j)'
  <2> SUFFICES ASSUME NEW j \in Parcels PROVE ParcelStands(j)'
    OBVIOUS
  <2>1. ParcelStands(j) BY DEF BooksInv
  <2>2. CASE j = k BY <1>1, <1>2, <1>8, <2>2 DEF ParcelStands, Version
  <2>3. CASE j # k BY <1>8, <2>1, <2>3 DEF ParcelStands, Version, NoParcel
  <2> QED BY <2>2, <2>3
<1> QED BY <1>2, <1>4, <1>6, <1>7, <1>8, <1>13, <1>14

LEMMA LeaveBooks ==
    ASSUME IndInv, IndInv', BooksInv, NEW k \in Parcels, Leave(k)
    PROVE  BooksInv'
<1> PICK p, v : parcel[k].of = p /\ parcel[k].version = v OBVIOUS
<1>1. /\ parcel[k].state = "packed" /\ parcel' = [parcel EXCEPT ![k].state = "left"]
      /\ stocked' = stocked /\ reserved' = reserved /\ held' = held /\ stage' = stage
      /\ line' = line /\ ordered' = ordered /\ packed' = packed /\ touched' = touched
      /\ short' = short /\ counted' = counted
  BY DEF Leave, level, orders, ghosts
<1>2. Shape /\ Shape' BY DEF IndInv
<1>3. /\ p \in Purchases /\ v \in 1 .. Len(ordered[p])
      /\ parcel[k].quantity \in Nat /\ packed[p][v] \in Nat /\ ordered[p][v] \in Nat
      /\ Units(OpenOf(p, v)) \in Nat
      /\ Units(OpenOf(p, v)) <= packed[p][v] /\ packed[p][v] <= ordered[p][v]
      /\ (Units(OpenOf(p, v)))' = Units(OpenOf(p, v)) - parcel[k].quantity
      /\ \A j \in Parcels : ParcelStands(j)'
      /\ parcel'[k].state = "left"
      /\ \A j \in Parcels : /\ parcel'[j].of = parcel[j].of
                            /\ parcel'[j].version = parcel[j].version
                            /\ parcel'[j].quantity = parcel[j].quantity
      /\ \A j \in Parcels \ {k} : parcel'[j] = parcel[j]
  BY <1>1, <1>2, ParcelGoes
<1>4. PackedStands'
  <2> PICK x \in Nat : x = packed[p][v] BY <1>3
  <2>1. x <= ordered[p][v] /\ (Units(OpenOf(p, v)))' <= x BY <1>3
  <2>2. packed' = [packed EXCEPT ![p][v] = x]
    <3>1. packed \in [Purchases -> Seq(Nat)] BY DEF BooksInv, PackedStands
    <3>2. [packed[p] EXCEPT ![v] = x] = packed[p] BY <1>3, <3>1
    <3>3. [packed EXCEPT ![p] = packed[p]] = packed BY <1>3, <3>1
    <3> QED BY <1>1, <3>2, <3>3
  <2>3. parcel'[k].of = p /\ parcel'[k].version = v BY <1>3
  <2>4. parcel[k] = NoParcel \/ (parcel[k].of = p /\ parcel[k].version = v) OBVIOUS
  <2>5. PackedStands BY DEF BooksInv
  <2>6. p \in Purchases /\ v \in 1 .. Len(ordered[p])
        /\ \A j \in Parcels \ {k} : parcel'[j] = parcel[j]
    BY <1>3
  <2>7. ordered' = ordered BY <1>1
  <2> QED BY <1>2, <2>1, <2>2, <2>3, <2>4, <2>5, <2>6, <2>7, ParcelMoves
<1>5. GoodsConserved'
  <2> DEFINE ks == Live
  <2>1. Live' = ks BY <1>1, <1>3 DEF Live
  <2>2. ks \in SUBSET Parcels BY DEF Live
  <2>3. \A j \in ks : parcel'[j].quantity = parcel[j].quantity BY <1>3, <2>2
  <2>4. (Units(Live))' = SumFunctionOnSet([j \in Parcels |-> parcel'[j].quantity], ks)
    BY <2>1 DEF Units
  <2>5. (Units(Live))' = Units(ks)
    <3> HIDE DEF ks
    <3> QED BY <1>2, <2>2, <2>3, <2>4, UnitsStay
  <2>6. counted = SumFunctionOnSet(stocked, Locations) + Required * Units(ks)
    BY DEF BooksInv, GoodsConserved, Live
  <2> HIDE DEF ks
  <2>7. counted' = SumFunctionOnSet(stocked', Locations) + Required * (Units(Live))'
    BY <1>1, <2>5, <2>6
  <2> QED BY <2>7 DEF GoodsConserved, Live
<1>6. \A r \in Purchases : Covered(r)'
  <2> SUFFICES ASSUME NEW r \in Purchases PROVE Covered(r)'
    OBVIOUS
  <2>1. Covered(r) BY DEF BooksInv
  <2> QED BY <1>1, <1>3, <2>1, CoveredStays
<1>7. NeverOversold' /\ Shelves' BY <1>1 DEF BooksInv, NeverOversold, Shelves
<1> QED BY <1>3, <1>4, <1>5, <1>6, <1>7 DEF BooksInv

LEMMA CancelParcelBooks ==
    ASSUME IndInv, IndInv', BooksInv, NEW k \in Parcels, CancelParcel(k)
    PROVE  BooksInv'
<1> PICK p, v, l, m : /\ parcel[k].of = p /\ parcel[k].version = v
                      /\ parcel[k].at = l /\ parcel[k].quantity = m
  OBVIOUS
<1> DEFINE q == m * Required
<1>1. /\ parcel[k].state = "packed" /\ parcel' = [parcel EXCEPT ![k].state = "canceled"]
      /\ stocked' = [stocked EXCEPT ![l] = @ + q]
      /\ Hold(p, l, q)
      /\ packed' = [packed EXCEPT ![p][v] = Unpacked(p, v, m)]
      /\ stage' = stage /\ line' = line /\ ordered' = ordered /\ touched' = touched
      /\ short' = short /\ counted' = counted
  BY DEF CancelParcel, ghosts
<1>2. Shape /\ Shape' BY DEF IndInv
<1>3. /\ p \in Purchases /\ stage[p] \in {"done", "canceled"}
      /\ v \in 1 .. Len(ordered[p])
      /\ m \in Nat /\ packed[p][v] \in Nat /\ ordered[p][v] \in Nat
      /\ m <= Units(OpenOf(p, v)) /\ Units(OpenOf(p, v)) \in Nat
      /\ Units(OpenOf(p, v)) <= packed[p][v] /\ packed[p][v] <= ordered[p][v]
      /\ (Units(OpenOf(p, v)))' = Units(OpenOf(p, v)) - m
      /\ \A j \in Parcels : ParcelStands(j)'
      /\ parcel'[k].state = "canceled"
      /\ \A j \in Parcels : /\ parcel'[j].of = parcel[j].of
                            /\ parcel'[j].version = parcel[j].version
                            /\ parcel'[j].quantity = parcel[j].quantity
      /\ \A j \in Parcels \ {k} : parcel'[j] = parcel[j]
  BY <1>1, <1>2, ParcelGoes
<1>4. l \in Locations BY <1>2 DEF Shape, ParcelStates
<1>5. q \in Nat BY <1>3, SizesAssumption
<1> PICK x \in Nat : x = packed[p][v] - m BY <1>3
<1>6. packed' = [packed EXCEPT ![p][v] = x]
  <2>1. Unpacked(p, v, m) = x BY <1>3 DEF Unpacked
  <2> QED BY <1>1, <2>1
<1>7. PackedStands'
  <2>1. x <= ordered[p][v] /\ (Units(OpenOf(p, v)))' <= x BY <1>3
  <2>3. parcel'[k].of = p /\ parcel'[k].version = v BY <1>3
  <2>4. parcel[k] = NoParcel \/ (parcel[k].of = p /\ parcel[k].version = v) OBVIOUS
  <2>5. PackedStands BY DEF BooksInv
  <2>6. p \in Purchases /\ v \in 1 .. Len(ordered[p])
        /\ \A j \in Parcels \ {k} : parcel'[j] = parcel[j]
    BY <1>3
  <2>7. ordered' = ordered BY <1>1
  <2> QED BY <1>2, <1>6, <2>1, <2>3, <2>4, <2>5, <2>6, <2>7, ParcelMoves
<1> HIDE DEF q
<1>8. stocked \in [Locations -> Nat] /\ stocked' \in [Locations -> Nat]
  BY <1>1, <1>4, <1>5 DEF BooksInv, Shelves
<1>9. stocked'[l] = stocked[l] + q /\ \A j \in Locations \ {l} : stocked'[j] = stocked[j]
  BY <1>1, <1>4, <1>8
<1>10. GoodsConserved'
  <2> DEFINE a == SumFunctionOnSet(stocked, Locations)
             b == SumFunctionOnSet(stocked', Locations)
             ks == Live
  <2>1. b = a + q /\ a \in Int
    <3>1. stocked \in [Locations -> Int] /\ stocked' \in [Locations -> Int]
      BY <1>8
    <3>2. b = a + stocked'[l] - stocked[l] /\ a \in Int BY <1>4, <1>9, <3>1, ShelfMoves
    <3>3. stocked[l] \in Int BY <1>4, <3>1
    <3> HIDE DEF a, b
    <3> QED BY <1>5, <1>9, <3>2, <3>3
  <2>2. Live' = ks \ {k} BY <1>3 DEF Live
  <2>3. ks \in SUBSET Parcels /\ k \in ks BY <1>1 DEF Live
  <2>4. \A j \in ks : parcel'[j].quantity = parcel[j].quantity BY <1>3, <2>3
  <2>5. (Units(Live))'
          = SumFunctionOnSet([j \in Parcels |-> parcel'[j].quantity], ks \ {k})
    BY <2>2 DEF Units
  <2>6. (Units(Live))' = Units(ks) - m /\ Units(ks) \in Nat
    <3> HIDE DEF ks
    <3> QED BY <1>2, <2>3, <2>4, <2>5, OneParcelLess, UnitsType
  <2>7. counted = a + Required * Units(ks) BY DEF BooksInv, GoodsConserved, Live
  <2>8. counted' = b + Required * (Units(Live))'
    <3> DEFINE u == Units(ks)
    <3>1. (Units(Live))' = u - m /\ counted' = a + Required * u
      BY <1>1, <2>6, <2>7
    <3>2. u \in Nat BY <2>6
    <3>3. Required * (u - m) = Required * u - q
      <4> HIDE DEF u
      <4> QED BY <1>3, <3>2, SizesAssumption DEF q
    <3>4. Required * u \in Int BY <3>2, SizesAssumption
    <3> HIDE DEF u, a, b
    <3> QED BY <1>5, <2>1, <3>1, <3>3, <3>4
  <2> QED BY <2>8 DEF GoodsConserved, Live
<1>11. p \in Holds BY <1>3, HoldsSplit
<1>12. NeverOversold'
  <2>1. reserved' = [reserved EXCEPT ![l] = reserved[l] + q] BY <1>1 DEF Hold
  <2> QED BY <1>1, <1>2, <1>4, <1>5, <1>8, <1>9, <2>1 DEF BooksInv, NeverOversold, Shape
<1>13. \A r \in Purchases : r # p => held'[r] = held[r] /\ packed'[r] = packed[r]
  <2>1. packed \in [Purchases -> Seq(Nat)] BY DEF BooksInv, PackedStands
  <2> QED BY <1>1, <1>2, <1>6, <1>11, HoldsSplit, <2>1 DEF Hold, Shape
<1>14. Covered(p)'
  <2>1. ~ NeverPacked(p)' BY <1>3 DEF NeverPacked
  <2>2. Version(p)' = Version(p) BY <1>1 DEF Version
  <2>3. SUFFICES ASSUME touched'[p] = "nothing", stage'[p] = "done", Uncrossed(p)'
                 PROVE  SumFunctionOnSet(held'[p], Locations)
                     = (ordered'[p][Version(p)'] - packed'[p][Version(p)']) * Required
    BY <1>1, <1>3, <2>1 DEF Covered
  <2>4. Uncrossed(p) /\ v = Version(p) BY <1>3, <2>2, <2>3 DEF Uncrossed
  <2>5. SumFunctionOnSet(held[p], Locations) = (ordered[p][v] - packed[p][v]) * Required
    BY <1>1, <1>3, <2>3, <2>4 DEF BooksInv, Covered
  <2>6. held[p] \in [Locations -> Nat] BY <1>2, <1>11 DEF Shape
  <2>7. held' = [held EXCEPT ![p] = [held[p] EXCEPT ![l] = held[p][l] + q]]
    BY <1>1 DEF Hold
  <2>8. held'[p] = [held[p] EXCEPT ![l] = held[p][l] + q]
    BY <1>2, <1>11, <2>7 DEF Shape
  <2>9. held'[p][l] = held[p][l] + q /\ \A j \in Locations \ {l} : held'[p][j] = held[p][j]
    BY <1>4, <2>6, <2>8
  <2>10. packed'[p][v] = x
    <3>1. packed' = [packed EXCEPT ![p] = [packed[p] EXCEPT ![v] = x]] BY <1>6
    <3>2. packed \in [Purchases -> Seq(Nat)] /\ Len(packed[p]) = Len(ordered[p])
      BY <1>3 DEF BooksInv, PackedStands
    <3>3. packed'[p] = [packed[p] EXCEPT ![v] = x] BY <1>3, <3>1, <3>2
    <3> QED BY <1>3, <3>2, <3>3
  <2>11. /\ SumFunctionOnSet(held'[p], Locations)
              = SumFunctionOnSet(held[p], Locations) + held'[p][l] - held[p][l]
         /\ SumFunctionOnSet(held[p], Locations) \in Int
    BY <1>2, <1>4, <1>11, <2>9, HeldMoves
  <2>12. held[p][l] \in Int BY <1>4, <2>6
  <2> DEFINE a == ordered[p][v]
             b == packed[p][v]
             c == (a - b) * Required
             d == SumFunctionOnSet(held[p], Locations)
             e == SumFunctionOnSet(held'[p], Locations)
  <2>13. (a - (b - m)) * Required = (a - b) * Required + q
    <3>1. a \in Int /\ b \in Int BY <1>3
    <3> HIDE DEF a, b
    <3> QED BY <1>3, <3>1, SizesAssumption DEF q
  <2>14. d = c /\ e = d + held'[p][l] - held[p][l] /\ d \in Int BY <2>5, <2>11
  <2>15. (a - packed'[p][v]) * Required = c + q BY <2>10, <2>13
  <2>16. e = (a - packed'[p][v]) * Required
    <3> HIDE DEF a, c, d, e
    <3> QED BY <1>5, <2>9, <2>12, <2>14, <2>15
  <2> QED BY <1>1, <2>2, <2>4, <2>16
<1>15. \A r \in Purchases : Covered(r)'
  <2> SUFFICES ASSUME NEW r \in Purchases, r # p PROVE Covered(r)'
    BY <1>14
  <2>1. Covered(r) BY DEF BooksInv
  <2> QED BY <1>1, <1>3, <1>13, <2>1, CoveredStays
<1>16. Shelves' BY <1>1, <1>8 DEF BooksInv, Shelves
<1> QED BY <1>3, <1>7, <1>10, <1>12, <1>15, <1>16 DEF BooksInv

LEMMA CancelOrderBooks ==
    ASSUME IndInv, IndInv', BooksInv, NEW p \in Purchases, CancelOrder(p)
    PROVE  BooksInv'
<1> DEFINE open == Open(p)
           out(l) == {k \in open : parcel[k].at = l}
           left == [v \in 1 .. Len(packed[p]) |-> packed[p][v] - Units(OpenOf(p, v))]
<1>1. /\ stage[p] = "done" /\ stage' = [stage EXCEPT ![p] = "canceled"]
      /\ LetGo(p)
      /\ stocked' = [l \in Locations |-> stocked[l] + Required * Units(out(l))]
      /\ parcel' = [k \in Parcels |->
           IF k \in open THEN [parcel[k] EXCEPT !.state = "canceled"] ELSE parcel[k]]
      /\ line' = line /\ ordered' = ordered /\ touched' = touched
      /\ short' = short /\ counted' = counted
  BY DEF CancelOrder, ghosts
<1>2. Shape /\ Shape' BY DEF IndInv
<1>3. /\ packed \in [Purchases -> Seq(Nat)] /\ packed[p] \in Seq(Nat)
      /\ Len(packed[p]) = Len(ordered[p])
  BY DEF BooksInv, PackedStands
<1>4. packed' = [packed EXCEPT ![p] = left]
  <2>1. packed' = [packed EXCEPT ![p] = [v \in DOMAIN packed[p] |->
                     packed[p][v] - Units(OpenOf(p, v))]]
    BY DEF CancelOrder, OpenOf
  <2>2. DOMAIN packed[p] = 1 .. Len(packed[p]) BY <1>3
  <2> QED BY Zenon, <2>1, <2>2
<1>5. open \in SUBSET Parcels /\ open \in SUBSET Live BY DEF Open, Live
<1>6. \A k \in Parcels : /\ parcel'[k].of = parcel[k].of
                         /\ parcel'[k].version = parcel[k].version
                         /\ parcel'[k].quantity = parcel[k].quantity
                         /\ parcel'[k].state =
                              IF k \in open THEN "canceled" ELSE parcel[k].state
                         /\ k \notin open => parcel'[k] = parcel[k]
  BY <1>1, <1>2 DEF Shape, ParcelStates
<1>7. stage'[p] = "canceled" /\ \A r \in Purchases : r # p => stage'[r] = stage[r]
  BY <1>1, <1>2 DEF Shape
<1>8. \A v : Units(OpenOf(p, v)) \in Nat
  <2> SUFFICES ASSUME NEW v PROVE Units(OpenOf(p, v)) \in Nat
    OBVIOUS
  <2>1. OpenOf(p, v) \in SUBSET Parcels BY DEF OpenOf, Open
  <2> QED BY <1>2, <2>1, UnitsType
<1>9. /\ left \in Seq(Nat) /\ Len(left) = Len(packed[p])
      /\ \A v \in 1 .. Len(ordered[p]) : left[v] \in Nat /\ left[v] <= ordered[p][v]
  <2>1. \A v \in 1 .. Len(packed[p]) : packed[p][v] - Units(OpenOf(p, v)) \in Nat
    <3> SUFFICES ASSUME NEW v \in 1 .. Len(packed[p])
                 PROVE  packed[p][v] - Units(OpenOf(p, v)) \in Nat
      OBVIOUS
    <3>1. packed[p][v] \in Nat BY <1>3
    <3>2. Units(OpenOf(p, v)) <= packed[p][v] BY <1>3 DEF BooksInv, PackedStands
    <3> QED BY <1>8, <3>1, <3>2
  <2>2. left \in Seq(Nat) /\ Len(left) = Len(packed[p]) BY <1>3, <2>1
  <2>3. ASSUME NEW v \in 1 .. Len(ordered[p])
        PROVE  left[v] \in Nat /\ left[v] <= ordered[p][v]
    <3>1. packed[p][v] \in Nat /\ ordered[p][v] \in Nat BY <1>2, <1>3 DEF Shape
    <3>2. packed[p][v] <= ordered[p][v] BY DEF BooksInv, PackedStands
    <3> QED BY <1>3, <1>8, <2>1, <3>1, <3>2
  <2> QED BY <2>2, <2>3
<1> HIDE DEF left
<1>10. packed'[p] = left /\ \A r \in Purchases : r # p => packed'[r] = packed[r]
  BY <1>3, <1>4
<1>11. PackedStands'
  <2>1. packed' \in [Purchases -> Seq(Nat)] BY <1>3, <1>4, <1>9
  <2>2. \A r \in Purchases : Len(packed'[r]) = Len(ordered'[r])
    BY <1>1, <1>3, <1>9, <1>10 DEF BooksInv, PackedStands
  <2>3. \A r \in Purchases : \A v \in 1 .. Len(ordered'[r]) :
          packed'[r][v] <= ordered'[r][v] /\ (Units(OpenOf(r, v)))' <= packed'[r][v]
    <3> SUFFICES ASSUME NEW r \in Purchases, NEW v \in 1 .. Len(ordered[r])
                 PROVE  /\ packed'[r][v] <= ordered[r][v]
                        /\ (Units(OpenOf(r, v)))' <= packed'[r][v]
      BY <1>1
    <3>1. CASE r = p
      <4>1. (OpenOf(r, v))' = {} BY <1>6, <3>1 DEF OpenOf, Open
      <4>2. (Units(OpenOf(r, v)))' = 0
        <5>1. (Units(OpenOf(r, v)))'
                = SumFunctionOnSet([j \in Parcels |-> parcel'[j].quantity], {})
          BY <4>1 DEF Units
        <5> QED BY <5>1, OnSetEmpty
      <4> QED BY <1>9, <1>10, <3>1, <4>2
    <3>2. CASE r # p
      <4> DEFINE ks == OpenOf(r, v)
      <4>1. (OpenOf(r, v))' = ks BY <1>6, <3>2 DEF OpenOf, Open
      <4>2. ks \in SUBSET Parcels BY DEF OpenOf, Open
      <4>3. \A j \in ks : parcel'[j].quantity = parcel[j].quantity BY <1>6, <4>2
      <4>4. (Units(OpenOf(r, v)))'
              = SumFunctionOnSet([j \in Parcels |-> parcel'[j].quantity], ks)
        BY <4>1 DEF Units
      <4>5. Units(ks) <= packed[r][v] /\ packed[r][v] <= ordered[r][v]
        BY DEF BooksInv, PackedStands
      <4> HIDE DEF ks
      <4>6. (Units(OpenOf(r, v)))' = Units(ks) BY <1>2, <4>2, <4>3, <4>4, UnitsStay
      <4> QED BY <1>10, <3>2, <4>5, <4>6
    <3> QED BY <3>1, <3>2
  <2> QED BY <2>1, <2>2, <2>3 DEF PackedStands
<1>12. ASSUME NEW k \in Parcels PROVE ParcelStands(k)'
  <2>1. ParcelStands(k) BY DEF BooksInv
  <2>2. CASE k \in open
    <3>1. parcel[k].of = p /\ parcel[k] # NoParcel BY <2>2 DEF Open, NoParcel
    <3> QED BY <1>1, <1>6, <1>7, <2>1, <2>2, <3>1 DEF ParcelStands, Version
  <2>3. CASE k \notin open
    <3>1. parcel'[k] = parcel[k] BY <1>6, <2>3
    <3> QED BY <1>1, <1>7, <2>1, <3>1 DEF ParcelStands, Version, NoParcel
  <2> QED BY <2>2, <2>3
<1>13. \A l \in Locations : Units(out(l)) \in Nat
  <2> SUFFICES ASSUME NEW l \in Locations PROVE Units(out(l)) \in Nat
    OBVIOUS
  <2>1. out(l) \in SUBSET Parcels BY <1>5
  <2> QED BY <1>2, <2>1, UnitsType
<1>14. stocked \in [Locations -> Nat] BY DEF BooksInv, Shelves
<1>15. \A l \in Locations : stocked'[l] \in Nat /\ stocked'[l] >= stocked[l]
  <2> SUFFICES ASSUME NEW l \in Locations
               PROVE  stocked'[l] \in Nat /\ stocked'[l] >= stocked[l]
    OBVIOUS
  <2> DEFINE u == Units(out(l))
  <2>1. u \in Nat /\ stocked'[l] = stocked[l] + Required * u BY <1>1, <1>13
  <2>2. stocked[l] \in Nat BY <1>14
  <2> HIDE DEF u
  <2>3. Required * u \in Nat BY <2>1, SizesAssumption
  <2> QED BY <2>1, <2>2, <2>3
<1>16. stocked' \in [Locations -> Nat] BY <1>1, <1>15
<1>17. GoodsConserved'
  <2> DEFINE f == [k \in Parcels |-> parcel[k].quantity]
             at == [k \in Parcels |-> parcel[k].at]
             g == [l \in Locations |-> Units(out(l))]
             d == [l \in Locations |-> Required * Units(out(l))]
             a == SumFunctionOnSet(stocked, Locations)
             b == SumFunctionOnSet(stocked', Locations)
             u == Units(open)
             w == Units(Live \ open)
  <2>1. SumFunctionOnSet(g, Locations) = SumFunctionOnSet(f, open)
    <3>1. \A k \in open : f[k] \in Int /\ at[k] \in Locations
      BY <1>2, <1>5 DEF Shape, ParcelStates
    <3>2. \A l \in Locations : g[l] = SumFunctionOnSet(f, {k \in open : at[k] = l})
      <4> SUFFICES ASSUME NEW l \in Locations
                   PROVE  g[l] = SumFunctionOnSet(f, {k \in open : at[k] = l})
        OBVIOUS
      <4>1. out(l) = {k \in open : at[k] = l} BY <1>5
      <4>2. g[l] = SumFunctionOnSet(f, out(l)) BY DEF Units
      <4> QED BY Zenon, <4>1, <4>2
    <3>3. IsFiniteSet(open) BY <1>5, Finite, FS_Subset
    <3> HIDE DEF f, at, g, open
    <3>4. GroupSums(g, Locations, f, open, at) BY <3>1, <3>2 DEF GroupSums
    <3> QED BY <3>3, <3>4, Finite, OnSetGroups
  <2>2. SumFunctionOnSet(d, Locations) = Required * SumFunctionOnSet(g, Locations)
    <3>1. \A l \in Locations : g[l] \in Int /\ d[l] = Required * g[l] BY <1>13
    <3> HIDE DEF g, d
    <3> QED BY <3>1, Finite, OnSetScale, SizesAssumption
  <2>3. b = a + SumFunctionOnSet(d, Locations)
    <3>1. \A l \in Locations : /\ stocked[l] \in Int /\ d[l] \in Int
                               /\ stocked'[l] = stocked[l] + d[l]
      <4> SUFFICES ASSUME NEW l \in Locations
                   PROVE  /\ stocked[l] \in Int /\ d[l] \in Int
                          /\ stocked'[l] = stocked[l] + d[l]
        OBVIOUS
      <4>1. stocked[l] \in Int /\ stocked'[l] = stocked[l] + d[l] BY <1>1, <1>14
      <4> DEFINE z == Units(out(l))
      <4>2. z \in Nat /\ d[l] = Required * z BY <1>13
      <4> HIDE DEF z, d
      <4> QED BY <4>1, <4>2, SizesAssumption
    <3> HIDE DEF d
    <3> QED BY <3>1, Finite, OnSetAdds
  <2>4. b = a + Required * u
    <3>1. u = SumFunctionOnSet(f, open) BY DEF Units
    <3> HIDE DEF a, b, d, f, g, u
    <3> QED BY <2>1, <2>2, <2>3, <3>1
  <2>5. Units(Live) = u + w
    <3>1. \A k \in Live : f[k] \in Int BY <1>2 DEF Shape, ParcelStates, Live
    <3>2. IsFiniteSet(Live) BY Finite, FS_Subset DEF Live
    <3>3. Units(Live) = SumFunctionOnSet(f, Live) /\ u = SumFunctionOnSet(f, open)
          /\ w = SumFunctionOnSet(f, Live \ open)
      BY DEF Units
    <3> HIDE DEF f, u, w, open
    <3> QED BY <1>5, <3>1, <3>2, <3>3, OnSetSplit
  <2>6. (Units(Live))' = w
    <3> DEFINE ks == Live \ open
    <3>1. Live' = ks BY <1>5, <1>6 DEF Live
    <3>2. ks \in SUBSET Parcels BY DEF Live
    <3>3. \A j \in ks : parcel'[j].quantity = parcel[j].quantity BY <1>6, <3>2
    <3>4. (Units(Live))' = SumFunctionOnSet([j \in Parcels |-> parcel'[j].quantity], ks)
      BY <3>1 DEF Units
    <3>5. (Units(Live))' = Units(ks)
      <4> HIDE DEF ks
      <4> QED BY <1>2, <3>2, <3>3, <3>4, UnitsStay
    <3> QED BY <3>5
  <2>7. u \in Nat /\ w \in Nat
    <3>1. open \in SUBSET Parcels /\ Live \ open \in SUBSET Parcels BY <1>5 DEF Live
    <3> HIDE DEF open
    <3> QED BY <1>2, <3>1, UnitsType
  <2>8. a \in Int
    <3>1. \A l \in Locations : stocked[l] \in Int BY <1>14
    <3> QED BY <3>1, Finite, OnSetRemove
  <2>9. counted = a + Required * Units(Live) BY DEF BooksInv, GoodsConserved, Live
  <2>10. counted' = b + Required * (Units(Live))'
    <3>1. counted' = a + Required * (u + w) BY <1>1, <2>5, <2>9
    <3> HIDE DEF a, b, u, w
    <3>2. Required * (u + w) = Required * u + Required * w
          /\ Required * u \in Int /\ Required * w \in Int
      BY <2>7, SizesAssumption
    <3> QED BY <2>4, <2>6, <2>8, <3>1, <3>2
  <2> QED BY <2>10 DEF GoodsConserved, Live
<1>18. \A l \in Locations : reserved'[l] <= reserved[l]
  BY <1>1, <1>2, HoldsSplit DEF LetGo, Shape
<1>19. NeverOversold'
  <2>1. stocked' \in [Locations -> Int] BY <1>16
  <2> QED BY <1>1, <1>2, <1>15, <1>18, <2>1, StillThere DEF BooksInv, Shape
<1>20. \A r \in Purchases : r # p => held'[r] = held[r]
  BY <1>1, <1>2, HoldsSplit DEF LetGo, Shape
<1>21. \A r \in Purchases : Covered(r)'
  <2> SUFFICES ASSUME NEW r \in Purchases PROVE Covered(r)'
    OBVIOUS
  <2>1. Covered(r) BY DEF BooksInv
  <2>2. CASE r # p BY <1>1, <1>6, <1>7, <1>10, <1>20, <2>1, <2>2, CoveredStays
  <2>3. CASE r = p BY <1>7, <2>3, NothingToCover
  <2> QED BY <2>2, <2>3
<1>22. Shelves' BY <1>1, <1>16 DEF BooksInv, Shelves
<1> QED BY <1>11, <1>12, <1>17, <1>19, <1>21, <1>22 DEF BooksInv

LEMMA CountedBooks ==
    ASSUME IndInv, BooksInv, NEW l \in Locations, NEW n \in Nat, Counted(l, n)
    PROVE  BooksInv'
<1>1. /\ stocked' = [stocked EXCEPT ![l] = n]
      /\ short' = IF n < reserved[l] THEN short \cup {l} ELSE short
      /\ counted' = counted + n - stocked[l]
      /\ reserved' = reserved /\ held' = held /\ stage' = stage /\ line' = line
      /\ ordered' = ordered /\ packed' = packed /\ parcel' = parcel /\ touched' = touched
  BY DEF Counted, orders
<1>2. stocked \in [Locations -> Nat] /\ counted \in Int /\ short \subseteq Locations
  BY DEF BooksInv, Shelves
<1>3. /\ stocked' \in [Locations -> Nat] /\ stocked' \in [Locations -> Int]
      /\ stocked'[l] = n /\ stocked[l] \in Nat
      /\ \A k \in Locations \ {l} : stocked'[k] = stocked[k]
  BY <1>1, <1>2
<1>4. GoodsConserved'
  BY <1>1, <1>3, CountedByHand DEF BooksInv, IndInv
<1>5. NeverOversold' BY <1>1, <1>3 DEF BooksInv, NeverOversold, IndInv, Shape
<1>6. \A p \in Purchases : Covered(p)' BY <1>1, CoveredStays DEF BooksInv
<1>7. short' \subseteq Locations /\ counted' \in Int BY <1>1, <1>2, <1>3
<1> QED BY <1>1, <1>3, <1>4, <1>5, <1>6, <1>7, ByHand DEF BooksInv, Shelves

LEMMA TransferBooks ==
    ASSUME IndInv, BooksInv, NEW from \in Locations, NEW to \in Locations,
           NEW n \in Quantities, Transfer(from, to, n)
    PROVE  BooksInv'
<1>1. /\ from # to /\ stocked[from] - reserved[from] >= n
      /\ stocked' = [stocked EXCEPT ![from] = @ - n, ![to] = @ + n]
      /\ reserved' = reserved /\ held' = held /\ stage' = stage /\ line' = line
      /\ ordered' = ordered /\ packed' = packed /\ parcel' = parcel /\ touched' = touched
      /\ short' = short /\ counted' = counted
  BY DEF Transfer, Fits, Available, orders, ghosts
<1>2. n \in Nat BY SizesAssumption
<1>3. stocked \in [Locations -> Nat] /\ counted \in Int BY DEF BooksInv, Shelves
<1>4. reserved[from] \in Nat
  BY DEF IndInv, Shape
<1>5. stocked[from] - n \in Nat /\ stocked[to] + n \in Nat BY <1>1, <1>2, <1>3, <1>4
<1>6. /\ stocked' \in [Locations -> Nat]
      /\ stocked'[from] = stocked[from] - n /\ stocked'[to] = stocked[to] + n
      /\ \A k \in Locations \ {from, to} : stocked'[k] = stocked[k]
  BY <1>1, <1>3, <1>5
<1>7. SumFunctionOnSet(stocked', Locations) = SumFunctionOnSet(stocked, Locations)
  <2> DEFINE m == [stocked EXCEPT ![from] = stocked[from] - n]
             a == SumFunctionOnSet(stocked, Locations)
             b == SumFunctionOnSet(m, Locations)
             c == SumFunctionOnSet(stocked', Locations)
  <2>1. /\ \A x \in Locations : m[x] = IF x = from THEN stocked[from] - n ELSE stocked[x]
        /\ \A x \in Locations : stocked[x] \in Int /\ stocked'[x] \in Int
    BY <1>3, <1>6
  <2>2. \A x \in Locations : m[x] \in Int BY <1>5, <2>1
  <2>3. (\A x \in Locations \ {from} : m[x] = stocked[x])
        /\ (\A x \in Locations \ {to} : stocked'[x] = m[x])
    BY <1>6, <2>1
  <2>4. m[from] = stocked[from] - n /\ m[to] = stocked[to] BY <1>1, <2>1
  <2>5. a \in Int BY <2>1, Finite, OnSetRemove
  <2> HIDE DEF m
  <2>6. b = a + m[from] - stocked[from] BY <2>1, <2>2, <2>3, Finite, OnSetMoves
  <2>7. c = b + stocked'[to] - m[to]
    <3> DEFINE s == stocked'
    <3>1. (\A x \in Locations : m[x] \in Int /\ s[x] \in Int)
          /\ \A x \in Locations \ {to} : s[x] = m[x]
      BY <2>1, <2>2, <2>3
    <3> HIDE DEF s
    <3>2. SumFunctionOnSet(s, Locations) = b + s[to] - m[to] BY <3>1, Finite, OnSetMoves
    <3> QED BY <3>2 DEF s
  <2>8. stocked[from] \in Int /\ stocked[to] \in Int BY <2>1
  <2> HIDE DEF a, b, c
  <2>9. c = a BY <1>2, <1>6, <2>4, <2>5, <2>6, <2>7, <2>8
  <2> QED BY <2>9 DEF a, c
<1>8. GoodsConserved'
  <2>1. (Units(Live))' = Units(Live) BY <1>1 DEF Units, Live
  <2>2. counted = SumFunctionOnSet(stocked, Locations) + Required * Units(Live)
    BY DEF BooksInv, GoodsConserved, Live
  <2>3. counted' = SumFunctionOnSet(stocked', Locations) + Required * (Units(Live))'
    BY <1>1, <1>7, <2>1, <2>2
  <2> QED BY <2>3 DEF GoodsConserved, Live
<1>9. NeverOversold'
  <2> SUFFICES ASSUME NEW l \in Locations, l \notin short PROVE reserved[l] <= stocked'[l]
    BY <1>1 DEF NeverOversold
  <2>1. reserved[l] <= stocked[l] /\ reserved[l] \in Int
    BY DEF BooksInv, NeverOversold, IndInv, Shape
  <2> QED BY <1>1, <1>2, <1>3, <1>6, <2>1
<1>10. \A p \in Purchases : Covered(p)' BY <1>1, CoveredStays DEF BooksInv
<1> QED BY <1>1, <1>3, <1>6, <1>8, <1>9, <1>10, ByHand DEF BooksInv, Shelves

-----------------------------------------------------------------------------
(* The theorems about the rest. *)

LEMMA NextBooks == IndInv /\ IndInv' /\ BooksInv /\ [Next]_vars => BooksInv'
<1> SUFFICES ASSUME IndInv, IndInv', BooksInv, [Next]_vars PROVE BooksInv'
  OBVIOUS
<1>1. ASSUME NEW p \in Purchases, Buying(p) PROVE BooksInv'
  BY <1>1, OpenCartBooks, ReserveBooks, ReserveRenewalBooks, DeliverBooks,
     ChangeCartBooks, PlaceBooks, CompleteBooks, UndoBooks DEF Buying
<1>2. ASSUME NEW p \in Purchases, Selling(p) PROVE BooksInv'
  BY <1>2, EditBooks, RemoveBooks, PackBooks, CancelOrderBooks DEF Selling
<1>3. ASSUME NEW w \in Sweepers, Sweeping(w) PROVE BooksInv'
  <2>1. ASSUME NEW p \in Purchases, SweepPick(w, p) PROVE BooksInv'
    BY <2>1, OnlyReads DEF SweepPick, level, orders, ghosts
  <2>2. CASE SweepRead(w) BY <2>2, OnlyReads DEF SweepRead, level, orders, ghosts
  <2>3. CASE SweepFails(w) BY <2>3, OnlyReads DEF SweepFails, level, orders, ghosts
  <2> QED BY <1>3, <2>1, <2>2, <2>3, SweepFinishBooks DEF Sweeping
<1>4. ASSUME NEW l \in Locations, NEW n \in 0 .. MaxGoods, SetStock(l, n) PROVE BooksInv'
  <2>1. n \in Nat BY SizesAssumption
  <2> QED BY <1>4, <2>1, CountedBooks DEF SetStock
<1>5. ASSUME NEW l \in Locations, NEW d \in {-1, 1}, AdjustStock(l, d) PROVE BooksInv'
  <2>1. stocked[l] \in Nat BY DEF BooksInv, Shelves
  <2>2. stocked[l] + d \in Nat BY <1>5, <2>1 DEF AdjustStock
  <2>3. PICK n \in Nat : n = stocked[l] + d BY <2>2
  <2>4. Counted(l, n) BY <1>5, <2>3 DEF AdjustStock
  <2> QED BY <2>4, CountedBooks
<1>6. CASE UNCHANGED vars BY <1>6, OnlyReads DEF vars, level, orders, ghosts
<1>7. CASE Next
  BY <1>1, <1>2, <1>3, <1>4, <1>5, <1>7, CancelParcelBooks, LeaveBooks,
     HandReserveBooks, HandReleaseBooks, HandFulfilBooks, ExpireBooks, TransferBooks
     DEF Next
<1> QED BY <1>6, <1>7

\* BooksInv holds of every reachable state.
THEOREM BooksInvariance == Spec => []BooksInv
<1>1. Init => BooksInv BY InitBooks
<1>2. IndInv /\ IndInv' /\ BooksInv /\ [Next]_vars => BooksInv' BY NextBooks
<1> QED BY <1>1, <1>2, InventoryInvariance, PTL DEF Spec

\* No more of the item is promised than is there, but where a count said so, a
\* backorder was allowed or goods went that nothing held (reserve,
\* transfer_stock, rescale_line, unfulfil_units in src/inventory.rs).
THEOREM NeverEverOversold == Spec => []NeverOversold
<1>1. BooksInv => NeverOversold BY DEF BooksInv
<1> QED BY <1>1, BooksInvariance, PTL

\* What came in and was not taken away by hand is on a shelf or in a parcel,
\* once, through every packing, cancellation and transfer (fulfil_units,
\* unfulfil_units, transfer_stock in src/inventory.rs; order::cancel).
THEOREM GoodsAlwaysConserved == Spec => []GoodsConserved
<1>1. BooksInv => GoodsConserved BY DEF BooksInv
<1> QED BY <1>1, BooksInvariance, PTL

\* What an order has still to ship is what its line holds, for a purchase that
\* nothing but its checkout and its order touched (bind_reservations,
\* rescale_line, take_held in src/inventory.rs).
THEOREM HoldsAlwaysCover == Spec => []HoldCovers
<1>1. BooksInv => HoldCovers BY DEF BooksInv, Covered, HoldCovers
<1> QED BY <1>1, BooksInvariance, PTL

\* Sweeps are remembered by location.
LEMMA StalePlaces == Spec => [](stale \subseteq Locations)
<1>1. Init => stale \subseteq Locations BY DEF Init
<1>2. stale \subseteq Locations /\ [Next]_vars => (stale \subseteq Locations)'
  <2> SUFFICES ASSUME stale \subseteq Locations, [Next]_vars
               PROVE  stale' \subseteq Locations
    OBVIOUS
  <2>1. ASSUME NEW p \in Purchases, Buying(p) \/ Selling(p) PROVE stale' = stale
    BY <2>1 DEF Buying, Selling, OpenCart, Reserve, ReserveRenewal, Deliver, ChangeCart,
                Place, Complete, Undo, Edit, Remove, Pack, CancelOrder, ghosts
  <2>2. ASSUME NEW w \in Sweepers, Sweeping(w) PROVE stale' \subseteq Locations
    BY <2>2 DEF Sweeping, SweepPick, SweepRead, SweepFinish, SweepFails, ghosts
  <2>3. CASE Next
    BY <2>1, <2>2, <2>3 DEF Next, CancelParcel, Leave, HandReserve, HandRelease,
       HandFulfil, SetStock, AdjustStock, Counted, Transfer, Expire, ghosts
  <2>4. CASE UNCHANGED vars BY <2>4 DEF vars, ghosts
  <2> QED BY <2>3, <2>4
<1> QED BY <1>1, <1>2, PTL DEF Spec

\* Every column holds what its type and its check constraints allow, so that no
\* update of one is refused for it (migrations/0007_inventory.sql and the
\* fulfilled_quantity of order_item).
THEOREM InventoryTypes == Spec => []TypeOK
<1>1. IndInv /\ BooksInv /\ stale \subseteq Locations => TypeOK
  <2> SUFFICES ASSUME IndInv, BooksInv, stale \subseteq Locations PROVE TypeOK
    OBVIOUS
  <2>1. reserved \in [Locations -> Nat] BY DEF IndInv, Shape
  <2>2. counted \in Nat
    <3> DEFINE a == SumFunctionOnSet(stocked, Locations)
               u == Units(Live)
    <3>1. a \in Nat
      <4>1. \A l \in Locations : stocked[l] \in Nat BY DEF BooksInv, Shelves
      <4> QED BY <4>1, Finite, OnSetNat
    <3>2. u \in Nat BY UnitsType DEF IndInv, Live
    <3>3. counted = a + Required * u BY DEF BooksInv, GoodsConserved, Live
    <3> HIDE DEF a, u
    <3>4. Required * u \in Nat BY <3>2, SizesAssumption
    <3> QED BY <3>1, <3>3, <3>4
  <2>3. /\ Shape /\ Shelves /\ packed \in [Purchases -> Seq(Nat)]
        /\ \A p \in Purchases :
              /\ Len(packed[p]) = Len(ordered[p])
              /\ \A v \in 1 .. Len(ordered[p]) : packed[p][v] <= ordered[p][v]
    BY DEF IndInv, BooksInv, PackedStands
  <2> QED BY <2>1, <2>2, <2>3 DEF Shape, Shelves, TypeOK
<1> QED BY <1>1, InventoryInvariance, BooksInvariance, StalePlaces, PTL
=============================================================================

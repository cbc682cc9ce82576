----------------------------- MODULE Inventory -----------------------------
(***************************************************************************)
(* One inventory item counted by quantity (src/inventory.rs): its level at *)
(* every location, the reservations that hold it, and what carts, orders,  *)
(* parcels and the staff do to both.                                       *)
(*                                                                         *)
(* Every action is one transaction, except a sweep of expired carts        *)
(* (cart::expire), which reads the carts, reads what they hold and only    *)
(* then deletes: checkouts run between its statements.                     *)
(***************************************************************************)
EXTENDS Integers, Sequences, FiniteSets, Functions, Sums

CONSTANTS
    Locations,   \* stock locations
    Bought,      \* number of purchases: a cart, a renewal or a paid delivery
    Slots,       \* number of holds that name no line, at any one time
    Required,    \* required_quantity: units of the item in one of the line
    Sweepers,    \* passes of cart::expire
    Quantities,  \* bound: what a line may ask for
    MaxGoods,    \* bound: units there ever are of the item
    MaxEdits,    \* bound: edits of one order
    MaxParcels   \* bound: parcels ever packed

Purchases == 1 .. Bought
Holds     == 1 .. Bought + Slots
Unnamed   == Bought + 1 .. Bought + Slots
Parcels   == 1 .. MaxParcels

ASSUME SizesAssumption ==
    /\ IsFiniteSet(Locations) /\ Locations # {}
    /\ Bought \in Nat
    /\ Slots \in Nat
    /\ Required \in Nat \ {0}
    /\ MaxGoods \in Nat
    /\ MaxEdits \in Nat
    /\ MaxParcels \in Nat
    /\ Quantities \subseteq Nat \ {0}

VARIABLES
    stocked,   \* inventory_level.stocked_quantity
    reserved,  \* inventory_level.reserved_quantity
    held,      \* reservation_item.quantity: of a purchase's line, or of no
               \* line at all; 0 where there is no row
    due,       \* the holds of no line whose expires_at has passed
    stage,     \* how far a purchase is
    cart,      \* its cart row: none, open, completed or gone
    line,      \* quantity of its cart line
    ordered,   \* order_item.quantity, version by version
    packed,    \* order_item.fulfilled_quantity, version by version
    parcel,    \* fulfillment and its one fulfillment_item
    sweep,     \* what a pass of cart::expire has read
    touched,   \* what first happened to a purchase behind its checkout's back
    short,     \* locations where more is promised than there is, on purpose
    counted,   \* goods that came in and were not taken away by hand
    stale      \* locations where a sweep gave back what a hold no longer was

level  == <<stocked, reserved>>
orders == <<ordered, packed>>
ghosts == <<touched, short, counted, stale>>
vars   == <<level, held, due, stage, cart, line, orders, parcel, sweep, ghosts>>

Stages  == {"new", "held", "placed", "done", "canceled", "undone"}
Carts   == {"none", "open", "completed", "gone"}
Causes  == {"hand", "swept", "elsewhere", "changed", "prepaid"}

Nowhere  == [l \in Locations |-> 0]
NoParcel == [of |-> 0, version |-> 0, at |-> CHOOSE l \in Locations : TRUE,
             quantity |-> 0, state |-> "none"]
NoSweep  == [of |-> 0, read |-> FALSE, holds |-> Nowhere, replaced |-> FALSE]

Init ==
    /\ stocked = Nowhere
    /\ reserved = Nowhere
    /\ held = [h \in Holds |-> Nowhere]
    /\ due = {}
    /\ stage = [p \in Purchases |-> "new"]
    /\ cart = [p \in Purchases |-> "none"]
    /\ line = [p \in Purchases |-> 0]
    /\ ordered = [p \in Purchases |-> <<>>]
    /\ packed = [p \in Purchases |-> <<>>]
    /\ parcel = [k \in Parcels |-> NoParcel]
    /\ sweep = [w \in Sweepers |-> NoSweep]
    /\ touched = [p \in Purchases |-> "nothing"]
    /\ short = {}
    /\ counted = 0
    /\ stale = {}

Available(l) == stocked[l] - reserved[l]

\* The version of an order a parcel is packed from and an edit starts at.
Version(p) == Len(ordered[p])

Touch(p, cause) ==
    touched' = [touched EXCEPT ![p] = IF @ = "nothing" THEN cause ELSE @]

\* What a number for each hold comes to in all.
AddUp(f) == Sum(f, Bought + Slots)

-----------------------------------------------------------------------------
(***************************************************************************)
(* Holding and letting go.                                                 *)
(***************************************************************************)

\* `reserve` is one conditional update of the level and the row it inserts.
FitsOnTheShelf(l, q) == stocked[l] >= q
Fits(l, q) == Available(l) >= q

Hold(h, l, q) ==
    /\ reserved' = [reserved EXCEPT ![l] = @ + q]
    /\ held' = [held EXCEPT ![h][l] = @ + q]

\* Every row of one hold goes, and the levels come down by what they held,
\* if the constraint of the level lets them: none goes below nothing.
LetGo(h) ==
    /\ \A l \in Locations : reserved[l] >= held[h][l]
    /\ reserved' = [l \in Locations |-> reserved[l] - held[h][l]]
    /\ held' = [held EXCEPT ![h] = Nowhere]

-----------------------------------------------------------------------------
(***************************************************************************)
(* A purchase: the steps of a checkout or a renewal that touch stock.      *)
(***************************************************************************)

\* A cart with one line.
OpenCart(p, n) ==
    /\ stage[p] = "new"
    /\ cart[p] = "none"
    /\ cart' = [cart EXCEPT ![p] = "open"]
    /\ line' = [line EXCEPT ![p] = n]
    /\ UNCHANGED <<level, held, due, stage, orders, parcel, sweep, ghosts>>

\* reserve_stock: what the cart's line asks for is held in the line's name.
Reserve(p, l) ==
    /\ stage[p] = "new"
    /\ cart[p] = "open"
    /\ Fits(l, line[p] * Required)
    /\ Hold(p, l, line[p] * Required)
    /\ stage' = [stage EXCEPT ![p] = "held"]
    /\ UNCHANGED <<stocked, due, cart, line, orders, parcel, sweep, ghosts>>

\* A renewal reserves in no line's name and carries the reservation's id.
ReserveRenewal(p, l, n) ==
    /\ stage[p] = "new"
    /\ cart[p] = "none"
    /\ Fits(l, n * Required)
    /\ Hold(p, l, n * Required)
    /\ stage' = [stage EXCEPT ![p] = "held"]
    /\ line' = [line EXCEPT ![p] = n]
    /\ UNCHANGED <<stocked, due, cart, orders, parcel, sweep, ghosts>>

\* subscription::deliver: the hold is taken and the order written in one
\* transaction, and nothing tells the one of the other.
Deliver(p, l, n, h) ==
    /\ stage[p] = "new"
    /\ cart[p] = "none"
    /\ held[h] = Nowhere
    /\ Fits(l, n * Required)
    /\ Hold(h, l, n * Required)
    /\ stage' = [stage EXCEPT ![p] = "done"]
    /\ ordered' = [ordered EXCEPT ![p] = <<n>>]
    /\ packed' = [packed EXCEPT ![p] = <<0>>]
    /\ Touch(p, "prepaid")
    /\ UNCHANGED <<stocked, due, cart, line, parcel, sweep, short, counted, stale>>

\* The shopper changes the line of a cart that is being bought: update_line
\* asks only that the cart is not completed.
ChangeCart(p, n) ==
    /\ stage[p] = "held"
    /\ cart[p] = "open"
    /\ n # line[p]
    /\ line' = [line EXCEPT ![p] = n]
    /\ Touch(p, "changed")
    /\ UNCHANGED <<level, held, due, stage, cart, orders, parcel, sweep, short, counted, stale>>

\* create_order: the order is written from the cart's line as it is by now,
\* and the holds are moved onto the order's line.  No level moves.
Place(p) ==
    /\ stage[p] = "held"
    /\ cart[p] \in {"none", "open"}
    /\ stage' = [stage EXCEPT ![p] = "placed"]
    /\ ordered' = [ordered EXCEPT ![p] = <<line[p]>>]
    /\ packed' = [packed EXCEPT ![p] = <<0>>]
    /\ UNCHANGED <<level, held, due, cart, line, parcel, sweep, ghosts>>

\* complete_cart, or the end of a renewal.
Complete(p) ==
    /\ stage[p] = "placed"
    /\ cart[p] \in {"none", "open"}
    /\ stage' = [stage EXCEPT ![p] = "done"]
    /\ cart' = [cart EXCEPT ![p] = IF @ = "open" THEN "completed" ELSE @]
    /\ UNCHANGED <<level, held, due, line, orders, parcel, sweep, ghosts>>

\* A later step failed: the compensations give back every hold, by the order's
\* line or by id, and a reservation already gone is none of their business.
Undo(p) ==
    /\ stage[p] \in {"held", "placed"}
    /\ LetGo(p)
    /\ stage' = [stage EXCEPT ![p] = "undone"]
    /\ UNCHANGED <<stocked, due, cart, line, orders, parcel, sweep, ghosts>>

-----------------------------------------------------------------------------
(***************************************************************************)
(* cart::expire.                                                           *)
(***************************************************************************)

\* What the rows that name the cart's line hold.
InTheCartsName(p) == IF stage[p] = "held" THEN held[p] ELSE Nowhere

\* The candidates are read: carts not completed and past their expiry.
SweepPick(w, p) ==
    /\ sweep[w] = NoSweep
    /\ cart[p] = "open"
    /\ sweep' = [sweep EXCEPT ![w].of = p]
    /\ UNCHANGED <<level, held, due, stage, cart, line, orders, parcel, ghosts>>

\* release_lines reads what the cart's line holds.
SweepRead(w) ==
    LET p == sweep[w].of
    IN  /\ p # 0
        /\ ~sweep[w].read
        /\ sweep' = [sweep EXCEPT ![w] =
                       [of |-> p, read |-> TRUE, holds |-> InTheCartsName(p),
                        replaced |-> FALSE]]
        /\ UNCHANGED <<level, held, due, stage, cart, line, orders, parcel, ghosts>>

\* It deletes the rows by id, and they must all be there still, whatever they
\* hold by now.
AllThereUnchecked(w) == TRUE
AllThere(w) ==
    /\ ~sweep[w].replaced
    /\ \A l \in Locations : sweep[w].holds[l] > 0 => held[sweep[w].of][l] > 0

\* A row that names the cart's line keeps the cart from being deleted.
NothingLeftUnchecked(w) == TRUE
NothingLeft(w) ==
    \A l \in Locations :
        InTheCartsName(sweep[w].of)[l] > 0 => sweep[w].holds[l] > 0

\* No level may go below nothing.
LevelsAllow(w) == \A l \in Locations : reserved[l] >= sweep[w].holds[l]

\* The levels come down by what was read, the cart is deleted whatever has
\* become of it, and all of it commits.
SweepFinish(w) ==
    LET p     == sweep[w].of
        holds == sweep[w].holds
    IN  /\ sweep[w].read
        /\ AllThere(w)
        /\ NothingLeft(w)
        /\ LevelsAllow(w)
        /\ held' = [held EXCEPT ![p] = [l \in Locations |->
                      IF holds[l] > 0 THEN 0 ELSE held[p][l]]]
        /\ reserved' = [l \in Locations |-> reserved[l] - holds[l]]
        /\ cart' = [cart EXCEPT ![p] = "gone"]
        /\ Touch(p, IF holds # Nowhere THEN "swept" ELSE "nothing")
        /\ sweep' = [sweep EXCEPT ![w] = NoSweep]
        /\ stale' = stale \cup {l \in Locations :
                      holds[l] > 0 /\ held[p][l] \notin {0, holds[l]}}
        /\ UNCHANGED <<stocked, due, stage, line, orders, parcel, short, counted>>

\* A row already gone, one taken since, or a level that would go below nothing
\* takes the whole sweep back.
SweepFails(w) ==
    /\ sweep[w].read
    /\ ~(AllThere(w) /\ NothingLeft(w) /\ LevelsAllow(w))
    /\ sweep' = [sweep EXCEPT ![w] = NoSweep]
    /\ UNCHANGED <<level, held, due, stage, cart, line, orders, parcel, ghosts>>

-----------------------------------------------------------------------------
(***************************************************************************)
(* What staff do to holds by hand, and the sweep of those that ran out.    *)
(***************************************************************************)

\* `reserve` in no line's name, with or without a backorder, for a while or
\* for good.
HandReserve(h, l, q) ==
    /\ held[h] = Nowhere
    /\ \E backorder \in BOOLEAN :
          /\ backorder \/ Fits(l, q)
          /\ short' = IF Fits(l, q) THEN short ELSE short \cup {l}
    /\ Hold(h, l, q)
    /\ due' \in {due, due \cup {h}}
    /\ UNCHANGED <<stocked, stage, cart, line, orders, parcel, sweep, touched, counted, stale>>

TouchedByHand(h) == IF h \in Purchases THEN Touch(h, "hand") ELSE touched' = touched

\* `release` of one reservation.
HandRelease(h, l) ==
    /\ held[h][l] > 0
    /\ reserved[l] >= held[h][l]
    /\ reserved' = [reserved EXCEPT ![l] = @ - held[h][l]]
    /\ held' = [held EXCEPT ![h][l] = 0]
    /\ due' = due \ {h}
    /\ TouchedByHand(h)
    /\ UNCHANGED <<stocked, stage, cart, line, orders, parcel, sweep, short, counted, stale>>

\* `fulfil` of one reservation: the goods leave with it.
HandFulfil(h, l) ==
    /\ held[h][l] > 0
    /\ stocked[l] >= held[h][l]
    /\ reserved[l] >= held[h][l]
    /\ stocked' = [stocked EXCEPT ![l] = @ - held[h][l]]
    /\ reserved' = [reserved EXCEPT ![l] = @ - held[h][l]]
    /\ held' = [held EXCEPT ![h][l] = 0]
    /\ due' = due \ {h}
    /\ counted' = counted - held[h][l]
    /\ TouchedByHand(h)
    /\ UNCHANGED <<stage, cart, line, orders, parcel, sweep, short, stale>>

GiveBack(hs) == [l \in Locations |->
    AddUp([h \in Holds |-> IF h \in hs THEN held[h][l] ELSE 0])]

\* expire_reservations: one delete, and each row it returns is given back.
Expire ==
    /\ due # {}
    /\ \A l \in Locations : reserved[l] >= GiveBack(due)[l]
    /\ reserved' = [l \in Locations |-> reserved[l] - GiveBack(due)[l]]
    /\ held' = [h \in Holds |-> IF h \in due THEN Nowhere ELSE held[h]]
    /\ due' = {}
    /\ UNCHANGED <<stocked, stage, cart, line, orders, parcel, sweep, ghosts>>

-----------------------------------------------------------------------------
(***************************************************************************)
(* What becomes of an order.                                               *)
(***************************************************************************)

\* What rescale_line makes of one hold when the line goes from one quantity to
\* another.
RescaledNever(q, from, to) == q
Rescaled(q, from, to) == (q \div from) * to

\* confirm_change with one action on the line, and the next version it writes.
\* A row the edit would leave with nothing on it breaks a constraint, and so
\* does a quantity below what is in parcels.
Edit(p, to) ==
    LET v    == Version(p)
        from == ordered[p][v]
    IN  /\ stage[p] = "done"
        /\ v <= MaxEdits
        /\ from > 0
        /\ to # from
        /\ to >= packed[p][v]
        /\ \A l \in Locations :
              LET q == held[p][l]
              IN  q > 0 /\ Rescaled(q, from, to) # q =>
                    /\ Rescaled(q, from, to) > 0
                    /\ \/ Rescaled(q, from, to) < q
                       \/ Fits(l, Rescaled(q, from, to) - q)
        /\ held' = [held EXCEPT ![p] = [l \in Locations |->
                                          Rescaled(held[p][l], from, to)]]
        /\ reserved' = [l \in Locations |-> LET new == reserved[l] - held[p][l]
                                                     + Rescaled(held[p][l], from, to)
                                          IN IF new < 0 THEN 0 ELSE new]
        /\ ordered' = [ordered EXCEPT ![p] = Append(@, to)]
        /\ packed' = [packed EXCEPT ![p] = Append(@, packed[p][v])]
        /\ UNCHANGED <<stocked, due, stage, cart, line, parcel, sweep, ghosts>>

\* An edit that takes the line off the order lets go of all it holds.
Remove(p) ==
    /\ stage[p] = "done"
    /\ Version(p) <= MaxEdits
    /\ ordered[p][Version(p)] > 0
    /\ LetGo(p)
    /\ ordered' = [ordered EXCEPT ![p] = Append(@, 0)]
    /\ packed' = [packed EXCEPT ![p] = Append(@, 0)]
    /\ UNCHANGED <<stocked, due, stage, cart, line, parcel, sweep, ghosts>>

\* take_held: the line's hold at the parcel's location, when there is enough.
Taken(p, l, q) == held[p][l] >= q

\* The check of the order's ledger: never more in parcels than ordered.
LeftToPackSome(p, n) == packed[p][Version(p)] < ordered[p][Version(p)]
LeftToPack(p, n) == packed[p][Version(p)] + n <= ordered[p][Version(p)]

\* create_fulfillment, fulfil_units: a parcel is packed from the order's current
\* version, at any location; nothing asks whether the order still stands.
Pack(p, l, n, k) ==
    LET v == Version(p)
        q == n * Required
    IN  /\ stage[p] \in {"done", "canceled"}
        /\ parcel[k] = NoParcel
        /\ \A j \in Parcels : j < k => parcel[j] # NoParcel
        /\ LeftToPack(p, n)
        /\ stocked[l] >= q
        /\ Taken(p, l, q) => reserved[l] >= q
        /\ stocked' = [stocked EXCEPT ![l] = @ - q]
        /\ IF Taken(p, l, q)
             THEN /\ reserved' = [reserved EXCEPT ![l] = @ - q]
                  /\ held' = [held EXCEPT ![p][l] = @ - q]
                  /\ touched' = touched
             ELSE /\ UNCHANGED <<reserved, held>>
                  /\ Touch(p, "elsewhere")
        /\ short' = IF ~Taken(p, l, q) /\ Available(l) < q THEN short \cup {l}
                    ELSE short
        /\ packed' = [packed EXCEPT ![p][v] = @ + n]
        /\ parcel' = [parcel EXCEPT ![k] =
             [of |-> p, version |-> v, at |-> l, quantity |-> n, state |-> "packed"]]
        /\ UNCHANGED <<due, stage, cart, line, ordered, sweep, counted, stale>>

\* What order_item's counter comes down to when a parcel of its version is
\* cancelled.
Unpacked(p, v, n) == IF packed[p][v] >= n THEN packed[p][v] - n ELSE packed[p][v]

\* A row made anew is not the row a sweep has read.
ReplaceRow(p, l) ==
    sweep' = [w \in Sweepers |->
        IF sweep[w].of = p /\ sweep[w].holds[l] > 0 /\ held[p][l] = 0
          THEN [sweep[w] EXCEPT !.replaced = TRUE] ELSE sweep[w]]

\* cancel_fulfillment, unfulfil_units: the units are back on the shelf, and the
\* order's line holds them again, in the row it has there or in a new one.
CancelParcel(k) ==
    LET c == parcel[k]
        q == c.quantity * Required
    IN  /\ c.state = "packed"
        /\ stocked' = [stocked EXCEPT ![c.at] = @ + q]
        /\ Hold(c.of, c.at, q)
        /\ ReplaceRow(c.of, c.at)
        /\ packed' = [packed EXCEPT ![c.of][c.version] =
                        Unpacked(c.of, c.version, c.quantity)]
        /\ parcel' = [parcel EXCEPT ![k].state = "canceled"]
        /\ UNCHANGED <<due, stage, cart, line, ordered, ghosts>>

\* mark_shipped.
Leave(k) ==
    /\ parcel[k].state = "packed"
    /\ parcel' = [parcel EXCEPT ![k].state = "left"]
    /\ UNCHANGED <<level, held, due, stage, cart, line, orders, sweep, ghosts>>

\* What some parcels have in them.
Units(ks) == SumFunctionOnSet([k \in Parcels |-> parcel[k].quantity], ks)

OpenOrClosed(p) == {k \in Parcels : parcel[k].of = p}
Open(p) == {k \in Parcels : parcel[k].of = p /\ parcel[k].state = "packed"}

\* order::cancel: refused once a parcel has left; the open ones are cancelled,
\* which holds their units again, and then everything held is given back.
CancelOrder(p) ==
    /\ stage[p] = "done"
    /\ \A k \in Parcels : parcel[k].of = p => parcel[k].state # "left"
    /\ LetGo(p)
    /\ stocked' = [l \in Locations |->
         stocked[l] + Required * Units({k \in Open(p) : parcel[k].at = l})]
    /\ packed' = [packed EXCEPT ![p] = [v \in DOMAIN packed[p] |->
         packed[p][v] - Units({k \in Open(p) : parcel[k].version = v})]]
    /\ parcel' = [k \in Parcels |->
         IF k \in Open(p) THEN [parcel[k] EXCEPT !.state = "canceled"] ELSE parcel[k]]
    /\ stage' = [stage EXCEPT ![p] = "canceled"]
    /\ UNCHANGED <<due, cart, line, ordered, sweep, ghosts>>

-----------------------------------------------------------------------------
(***************************************************************************)
(* Counting and moving the goods.                                          *)
(***************************************************************************)

Counted(l, n) ==
    /\ stocked' = [stocked EXCEPT ![l] = n]
    /\ short' = IF n < reserved[l] THEN short \cup {l} ELSE short
    /\ counted' = counted + n - stocked[l]
    /\ counted' <= MaxGoods
    /\ UNCHANGED <<reserved, held, due, stage, cart, line, orders, parcel, sweep, touched, stale>>

\* set_stock: the count is the truth, whatever is promised.
SetStock(l, n) ==
    /\ n # stocked[l]
    /\ Counted(l, n)

\* adjust_stock, and the restock of a return.
AdjustStock(l, d) ==
    /\ stocked[l] + d >= 0
    /\ Counted(l, stocked[l] + d)

\* transfer_stock: what is promised does not leave on a truck.
Transfer(from, to, n) ==
    /\ from # to
    /\ Fits(from, n)
    /\ stocked' = [stocked EXCEPT ![from] = @ - n, ![to] = @ + n]
    /\ UNCHANGED <<reserved, held, due, stage, cart, line, orders, parcel, sweep, ghosts>>

-----------------------------------------------------------------------------
Buying(p) ==
    \/ \E l \in Locations : Reserve(p, l)
    \/ \E l \in Locations, n \in Quantities :
          \/ ReserveRenewal(p, l, n)
          \/ \E h \in Unnamed : Deliver(p, l, n, h)
    \/ \E n \in Quantities : OpenCart(p, n) \/ ChangeCart(p, n)
    \/ Place(p) \/ Complete(p) \/ Undo(p)

Sweeping(w) ==
    \/ \E p \in Purchases : SweepPick(w, p)
    \/ SweepRead(w) \/ SweepFinish(w) \/ SweepFails(w)

Selling(p) ==
    \/ \E n \in Quantities : Edit(p, n)
    \/ Remove(p)
    \/ \E l \in Locations, n \in Quantities, k \in Parcels : Pack(p, l, n, k)
    \/ CancelOrder(p)

Next ==
    \/ \E p \in Purchases : Buying(p) \/ Selling(p)
    \/ \E w \in Sweepers : Sweeping(w)
    \/ \E k \in Parcels : CancelParcel(k) \/ Leave(k)
    \/ \E l \in Locations :
          \/ \E h \in Unnamed, q \in Quantities : HandReserve(h, l, q)
          \/ \E h \in Holds : HandRelease(h, l) \/ HandFulfil(h, l)
          \/ \E n \in 0 .. MaxGoods : SetStock(l, n)
          \/ \E d \in {-1, 1} : AdjustStock(l, d)
          \/ \E to \in Locations, n \in Quantities : Transfer(l, to, n)
    \/ Expire

Spec == Init /\ [][Next]_vars

-----------------------------------------------------------------------------
(***************************************************************************)
(* Properties.                                                             *)
(***************************************************************************)

SweepStates == [of : Purchases \cup {0}, read : BOOLEAN,
                holds : [Locations -> Nat], replaced : BOOLEAN]

ParcelStates ==
    [of : Purchases \cup {0}, version : Nat, at : Locations, quantity : Nat,
     state : {"none", "packed", "left", "canceled"}]

\* Every column holds what its type and its constraints allow: no level is
\* below none, no hold holds less than nothing, and no order has more in
\* parcels than it has ordered (the check constraints of inventory_level,
\* reservation_item and order_item).
TypeOK ==
    /\ stocked \in [Locations -> Nat]
    /\ reserved \in [Locations -> Nat]
    /\ held \in [Holds -> [Locations -> Nat]]
    /\ due \subseteq Unnamed
    /\ stage \in [Purchases -> Stages]
    /\ cart \in [Purchases -> Carts]
    /\ line \in [Purchases -> Nat]
    /\ ordered \in [Purchases -> Seq(Nat)]
    /\ packed \in [Purchases -> Seq(Nat)]
    /\ \A p \in Purchases :
          /\ Len(packed[p]) = Len(ordered[p])
          /\ \A v \in 1 .. Len(ordered[p]) : packed[p][v] <= ordered[p][v]
    /\ parcel \in [Parcels -> ParcelStates]
    /\ sweep \in [Sweepers -> SweepStates]
    /\ touched \in [Purchases -> Causes \cup {"nothing"}]
    /\ short \subseteq Locations
    /\ counted \in Nat
    /\ stale \subseteq Locations

\* What the holds at a location add up to.
Promised(l) == AddUp([h \in Holds |-> held[h][l]])

\* "`reserved` is what has been promised" (the module's documentation): a
\* level's count is what its reservations hold, whatever takes, moves, scales,
\* ships, gives back or expires them, but where a sweep gave back what it had
\* read of a hold and the hold had changed since (`release_lines`).
HoldsAddUp == \A l \in Locations : l \notin stale => reserved[l] = Promised(l)

\* The same without the exception, as the documentation has it.
ReservedIsPromised == \A l \in Locations : reserved[l] = Promised(l)

\* "Completed carts are never touched: one of those is an order's history" (the
\* documentation of `cart::expire`).
CompletedStay ==
    [][\A p \in Purchases : cart[p] = "completed" => cart'[p] = "completed"]_vars

\* No level has more reserved than is there, unless a count said so, a hold
\* allowed a backorder, or goods went that nothing held (`reserve`,
\* `transfer_stock`, `rescale_line`, `unfulfil_units`).
NeverOversold == \A l \in Locations : l \notin short => reserved[l] <= stocked[l]

\* No parcel of the order was packed before its last edit.
Uncrossed(p) == \A k \in Parcels : parcel[k].of = p => parcel[k].version = Version(p)

\* What an order still has to ship is what its line holds, unless its hold was
\* touched by something else, and it was not edited with a parcel already
\* packed (`rebind_reservations`, `bind_reservations`, `rescale_line`,
\* `fulfil_units`, `unfulfil_units`).
HoldCovers ==
    \A p \in Purchases :
        stage[p] = "done" /\ touched[p] = "nothing" /\ Uncrossed(p) =>
            SumFunctionOnSet(held[p], Locations) =
                (ordered[p][Version(p)] - packed[p][Version(p)]) * Required

\* Goods are on a shelf or in a parcel, once: whatever is packed, cancelled
\* or moved, none is lost and none comes back twice (`fulfil_units`,
\* `unfulfil_units`, `transfer_stock`, `order::cancel`).
GoodsConserved ==
    counted = SumFunctionOnSet(stocked, Locations)
              + Required * Units({k \in Parcels : parcel[k].state \in {"packed", "left"}})

\* A hold in a cart's name has a cart: nothing is held that neither an order
\* nor a checkout can give back (`cart::expire`).
HoldsNameACart ==
    \A p \in Purchases :
        stage[p] = "held" /\ cart[p] = "gone" => held[p] = Nowhere
=============================================================================

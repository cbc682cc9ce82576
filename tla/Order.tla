------------------------------- MODULE Order -------------------------------
(***************************************************************************)
(* The lines of one order, version by version: the changes staff ask for   *)
(* and settle, the returns, exchanges and claims that are changes as well, *)
(* and the parcels that move the counters of a version (src/order.rs,      *)
(* src/fulfilment.rs, migrations/0011_order.sql).                          *)
(*                                                                         *)
(* Settling a change is split where it reads the change, where it reads    *)
(* the order, and where it holds the order's row and writes.  A return, an *)
(* exchange or a claim opens a change and confirms it in one transaction,  *)
(* which no other change can enter (order_change_pending_key): one action. *)
(***************************************************************************)
EXTENDS Integers, Sums

CONSTANTS
    Lines,       \* order_line_item
    Ordered,     \* what each was ordered in, 0 for one no version has yet
    Changes,     \* changes staff may open
    Staff,       \* transactions that settle them
    MaxReturns, MaxParcels, MaxVersion, \* bounds on rows
    MaxQuantity, \* a bound on what a line grows to
    Quantities,  \* what staff may ask for, return or write off of a line
    Packs        \* what they may pack of it

ASSUME OrderAssumption ==
    /\ Lines # {}
    /\ Ordered \in [Lines -> Nat]
    /\ MaxReturns \in Nat /\ MaxParcels \in Nat
    /\ MaxVersion \in Nat \ {0}
    /\ MaxQuantity \in Nat
    /\ Quantities \subseteq Nat \ {0} /\ Packs \subseteq Nat \ {0}

Returns  == 1 .. MaxReturns
Parcels  == 1 .. MaxParcels
Versions == 1 .. MaxVersion

VARIABLES
    status,   \* order.status; "open" for those that are not final
    version,  \* order.version
    item,     \* order_item by version and line, NoRow where there is none
    change,   \* order_change and the one action staff put on it
    settling, \* what each transaction has read
    return,   \* order_return and its one item
    shelf,    \* what returns put back into stock
    parcel,   \* fulfillment and its one item
    landed,   \* history: how often the action of a change was applied
    dropped   \* history: lines removed after something was asked back

returns == <<return, shelf>>
vars == <<status, version, item, change, settling, returns, parcel, landed, dropped>>

NoRow == [quantity |-> 0, fulfilled |-> 0, shipped |-> 0, delivered |-> 0,
          requested |-> 0, received |-> 0, dismissed |-> 0, writtenOff |-> 0]

SomeLine == CHOOSE l \in Lines : TRUE
NoAct    == [kind |-> "none", line |-> SomeLine, quantity |-> 0]
Acts     == [kind : {"add", "update"}, line : Lines, quantity : Quantities]
            \cup [kind : {"remove"}, line : Lines, quantity : {0}]
NoChange == [status |-> "none", act |-> NoAct, applied |-> FALSE]
NoReturn == [status |-> "none", line |-> SomeLine, quantity |-> 0,
             received |-> 0, damaged |-> 0, located |-> FALSE]
NoParcel == [state |-> "none", version |-> 1, line |-> SomeLine, quantity |-> 0]
Idle     == [op |-> "idle", change |-> "none", from |-> 0]

Init ==
    /\ status = "open"
    /\ version = 1
    /\ item = [v \in Versions |-> [l \in Lines |->
                IF v = 1 THEN [NoRow EXCEPT !.quantity = Ordered[l]] ELSE NoRow]]
    /\ change = [c \in Changes |-> NoChange]
    /\ settling = [s \in Staff |-> Idle]
    /\ return = [r \in Returns |-> NoReturn]
    /\ shelf = [l \in Lines |-> 0]
    /\ parcel = [p \in Parcels |-> NoParcel]
    /\ landed = [c \in Changes |-> 0]
    /\ dropped = {}

-----------------------------------------------------------------------------
(* A new version *)

\* order_item's check constraints, and the ceilings of bump.
Unchecked(row) == TRUE
RequestUnchecked(row) ==
    /\ row.delivered <= row.shipped
    /\ row.shipped <= row.fulfilled
    /\ row.fulfilled <= row.quantity
    /\ row.received <= row.quantity
    /\ row.dismissed <= row.received
    /\ row.writtenOff <= row.quantity
Legal(row) ==
    /\ row.delivered <= row.shipped
    /\ row.shipped <= row.fulfilled
    /\ row.fulfilled <= row.quantity
    /\ row.requested <= row.quantity
    /\ row.received <= row.quantity
    /\ row.dismissed <= row.received
    /\ row.writtenOff <= row.quantity

\* What an action makes of the rows carry_forward has copied.
ItemAdd(rows, l, q)    == [rows EXCEPT ![l].quantity = @ + q]
ItemUpdate(rows, l, q) == [rows EXCEPT ![l].quantity = q]
ItemRemove(rows, l)    == [rows EXCEPT ![l] = NoRow]
ReturnItem(rows, l, q) == [rows EXCEPT ![l].requested = @ + q]
ReceiveUnbumped(rows, l, q) == rows
ReceiveItem(rows, l, q) == [rows EXCEPT ![l].received = @ + q]
DismissItem(rows, l, q) == [rows EXCEPT ![l].dismissed = @ + q]
WriteOff(rows, l, q)   == [rows EXCEPT ![l].writtenOff = @ + q]

Applied(rows, act) ==
    CASE act.kind = "add"    -> ItemAdd(rows, act.line, act.quantity)
      [] act.kind = "update" -> ItemUpdate(rows, act.line, act.quantity)
      [] act.kind = "remove" -> ItemRemove(rows, act.line)
      [] OTHER -> rows

\* carry_forward and the actions, at the version after the one that was read.
Write(rows) ==
    /\ version < MaxVersion
    /\ \A l \in Lines : Legal(rows[l]) /\ rows[l].quantity <= MaxQuantity
    /\ version' = version + 1
    /\ item' = [item EXCEPT ![version + 1] = rows]

-----------------------------------------------------------------------------
(* Changes of the staff *)

\* request_change: the order is not closed and no change of it stands open.
Openable ==
    /\ status = "open"
    /\ \A c \in Changes : change[c].status # "requested"

RequestChange(c) ==
    /\ Openable
    /\ change[c].status = "none"
    /\ change' = [change EXCEPT ![c].status = "requested"]
    /\ UNCHANGED <<status, version, item, settling, returns, parcel, landed, dropped>>

\* add_action, which may have read the change before it was settled.
AddAction(c) ==
    /\ change[c].status # "none" /\ change[c].act = NoAct
    /\ \E act \in Acts : change' = [change EXCEPT ![c].act = act]
    /\ UNCHANGED <<status, version, item, settling, returns, parcel, landed, dropped>>

\* confirm_change and decline_change read the change, hold nothing of it, and
\* do what they were asked; that the other one did so meanwhile is refused by
\* order_change_confirmed_valid and order_change_declined_valid.
ReadChange(s, c) ==
    /\ settling[s].op = "idle"
    /\ change[c].status = "requested"
    /\ \E op \in {"confirm", "decline"} :
         settling' = [settling EXCEPT ![s] = [op |-> op, change |-> c, from |-> 0]]
    /\ UNCHANGED <<status, version, item, change, returns, parcel, landed, dropped>>

Settles(s, op) == settling[s].op = op
Rest(s) == settling' = [settling EXCEPT ![s] = Idle]

DeclineChange(s) ==
    /\ Settles(s, "decline")
    /\ change[settling[s].change].status # "confirmed"
    /\ change' = [change EXCEPT ![settling[s].change].status = "declined"]
    /\ Rest(s)
    /\ UNCHANGED <<status, version, item, returns, parcel, landed, dropped>>

ReadOrder(s) ==
    /\ Settles(s, "confirm") /\ settling[s].from = 0
    /\ settling' = [settling EXCEPT ![s].from = version]
    /\ UNCHANGED <<status, version, item, change, returns, parcel, landed, dropped>>

\* Only an action that was not applied yet is applied now.
Always(c)  == change[c].act # NoAct
ToApply(c) == change[c].act # NoAct /\ ~change[c].applied

\* confirm_change, once it holds the order: the version it read still stands.
ConfirmChange(s) ==
    LET c   == settling[s].change
        act == IF ToApply(c) THEN change[c].act ELSE NoAct
    IN  /\ Settles(s, "confirm") /\ settling[s].from = version
        /\ change[c].status # "declined"
        /\ act.kind = "update" => item[version][act.line].quantity > 0
        /\ Write(Applied(item[version], act))
        /\ change' = [change EXCEPT ![c].status = "confirmed",
                                    ![c].applied = change[c].act # NoAct]
        /\ landed' = [landed EXCEPT ![c] = IF act = NoAct THEN @ ELSE @ + 1]
        /\ dropped' = IF act.kind = "remove" /\ item[version][act.line].requested > 0
                      THEN dropped \cup {act.line} ELSE dropped
        /\ Rest(s)
        /\ UNCHANGED <<status, returns, parcel>>

\* Another version was written meanwhile, a counter stands in the way, or there
\* is no stock for what was added (rescale_line); somebody gave up.
SettleRefused(s) ==
    /\ settling[s].op # "idle"
    /\ Rest(s)
    /\ UNCHANGED <<status, version, item, change, returns, parcel, landed, dropped>>

-----------------------------------------------------------------------------
(* Returns, exchanges and claims *)

\* open_return; rows are numbered as they are written.
OpenReturn(r, l, q) ==
    /\ return[r].status = "none"
    /\ \A k \in 1 .. r - 1 : return[k].status # "none"
    /\ \E located \in BOOLEAN :
         return' = [return EXCEPT ![r] =
            [status |-> "requested", line |-> l, quantity |-> q,
             received |-> 0, damaged |-> 0, located |-> located]]

RequestReturn(r, l, q) ==
    /\ Openable
    /\ OpenReturn(r, l, q)
    /\ Write(ReturnItem(item[version], l, q))
    /\ UNCHANGED <<status, change, settling, shelf, parcel, landed, dropped>>

\* request_exchange, and request_claim for a replacement of what is collected:
\* what comes back and what goes out are one change.
RequestExchange(r, l, q, out, n) ==
    LET rows == ReturnItem(item[version], l, q)
    IN  /\ Openable
        /\ OpenReturn(r, l, q)
        /\ Legal(rows[l])
        /\ Write(ItemAdd(rows, out, n))
        /\ UNCHANGED <<status, change, settling, shelf, parcel, landed, dropped>>

\* request_claim for what is not wanted back, refunded or replaced.
RequestClaim(l, q) ==
    LET rows == WriteOff(item[version], l, q)
    IN  /\ Openable
        /\ Legal(rows[l])
        /\ \/ Write(rows)
           \/ \E out \in Lines, n \in Quantities : Write(ItemAdd(rows, out, n))
        /\ UNCHANGED <<status, change, settling, returns, parcel, landed, dropped>>

\* receive_return and restock.
ReceiveReturn(r, q, broken) ==
    LET l    == return[r].line
        here == return[r].received + q
    IN  /\ return[r].status \in {"requested", "partially_received"}
        /\ Openable
        /\ here <= return[r].quantity
        /\ return' = [return EXCEPT ![r].received = here, ![r].damaged = @ + broken,
              ![r].status = IF here = return[r].quantity THEN "received"
                            ELSE "partially_received"]
        /\ shelf' = IF return[r].located THEN [shelf EXCEPT ![l] = @ + (q - broken)]
                    ELSE shelf
        /\ Write(ReceiveItem(item[version], l, q))
        /\ UNCHANGED <<status, change, settling, parcel, landed, dropped>>

\* dismiss_return, up to what the return has taken in.
DismissReturn(r, q) ==
    /\ return[r].status # "none"
    /\ return[r].received >= q
    /\ Openable
    /\ Write(DismissItem(item[version], return[r].line, q))
    /\ UNCHANGED <<status, change, settling, returns, parcel, landed, dropped>>

-----------------------------------------------------------------------------
(* Parcels *)

\* create_fulfillment_with is told a row of order_item, of any version.
CreateFulfillment(p, v, l, q) ==
    /\ parcel[p].state = "none"
    /\ \A k \in 1 .. p - 1 : parcel[k].state # "none"
    /\ v <= version
    /\ item[v][l].fulfilled + q <= item[v][l].quantity
    /\ item' = [item EXCEPT ![v][l].fulfilled = @ + q]
    /\ parcel' = [parcel EXCEPT ![p] =
            [state |-> "open", version |-> v, line |-> l, quantity |-> q]]
    /\ UNCHANGED <<status, version, change, settling, returns, landed, dropped>>

\* mark_shipped and mark_delivered, with move_quantities.
MarkShipped(p) ==
    LET v == parcel[p].version
        l == parcel[p].line
        q == parcel[p].quantity
    IN  /\ parcel[p].state = "open"
        /\ item[v][l].shipped + q <= item[v][l].fulfilled
        /\ parcel' = [parcel EXCEPT ![p].state = "shipped"]
        /\ item' = [item EXCEPT ![v][l].shipped = @ + q]
        /\ UNCHANGED <<status, version, change, settling, returns, landed, dropped>>

MarkDelivered(p) ==
    LET v == parcel[p].version
        l == parcel[p].line
        q == parcel[p].quantity
    IN  /\ parcel[p].state = "shipped"
        /\ item[v][l].delivered + q <= item[v][l].shipped
        /\ parcel' = [parcel EXCEPT ![p].state = "delivered"]
        /\ item' = [item EXCEPT ![v][l].delivered = @ + q]
        /\ UNCHANGED <<status, version, change, settling, returns, landed, dropped>>

\* cancel_fulfillment_with, looking again that it has not left.
Live(p)        == parcel[p].state \in {"open", "shipped"}
Cancellable(p) == parcel[p].state = "open"
CancelFulfillment(p) ==
    LET v == parcel[p].version
        l == parcel[p].line
        q == parcel[p].quantity
    IN  /\ Cancellable(p)
        /\ parcel' = [parcel EXCEPT ![p].state = "canceled"]
        /\ item' = IF item[v][l].fulfilled >= q
                   THEN [item EXCEPT ![v][l].fulfilled = @ - q] ELSE item
        /\ UNCHANGED <<status, version, change, settling, returns, landed, dropped>>

\* What parcels in a state carry of a line, packed from a version.
Aboard(box, state, v, l) ==
    IF box.state = state /\ box.version = v /\ box.line = l THEN box.quantity ELSE 0
Carried(state, v, l) ==
    Sum([p \in Parcels |-> Aboard(parcel[p], state, v, l)], MaxParcels)

-----------------------------------------------------------------------------
(* The order *)

\* cancel and unwind: nothing has shipped, and every open parcel is cancelled.
Cancel ==
    /\ status = "open"
    /\ \A p \in Parcels : parcel[p].state \notin {"shipped", "delivered"}
    /\ status' = "canceled"
    /\ parcel' = [p \in Parcels |-> IF parcel[p].state = "open"
                    THEN [parcel[p] EXCEPT !.state = "canceled"] ELSE parcel[p]]
    /\ item' = [v \in Versions |-> [l \in Lines |->
                    [item[v][l] EXCEPT !.fulfilled = @ - Carried("open", v, l)]]]
    /\ UNCHANGED <<version, change, settling, returns, landed, dropped>>

\* set_status
Archive ==
    /\ status = "open"
    /\ status' = "archived"
    /\ UNCHANGED <<version, item, change, settling, returns, parcel, landed, dropped>>

Next ==
    \/ \E c \in Changes : RequestChange(c)
    \/ \E s \in Staff, c \in Changes : ReadChange(s, c)
    \/ \E c \in Changes : AddAction(c)
    \/ \E s \in Staff : DeclineChange(s)
    \/ \E s \in Staff : ReadOrder(s)
    \/ \E s \in Staff : ConfirmChange(s)
    \/ \E s \in Staff : SettleRefused(s)
    \/ \E r \in Returns, l \in Lines, q \in Quantities : RequestReturn(r, l, q)
    \/ \E r \in Returns, l, out \in Lines, q, n \in Quantities :
         RequestExchange(r, l, q, out, n)
    \/ \E l \in Lines, q \in Quantities : RequestClaim(l, q)
    \/ \E r \in Returns, q \in Quantities : \E broken \in 0 .. q :
         ReceiveReturn(r, q, broken)
    \/ \E r \in Returns, q \in Quantities : DismissReturn(r, q)
    \/ \E p \in Parcels, v \in Versions, l \in Lines, q \in Packs :
         CreateFulfillment(p, v, l, q)
    \/ \E p \in Parcels : MarkShipped(p)
    \/ \E p \in Parcels : MarkDelivered(p)
    \/ \E p \in Parcels : CancelFulfillment(p)
    \/ Cancel
    \/ Archive

Spec == Init /\ [][Next]_vars

-----------------------------------------------------------------------------
(* Properties *)

Counters == [quantity : Nat, fulfilled : Nat, shipped : Nat, delivered : Nat,
             requested : Nat, received : Nat, dismissed : Nat, writtenOff : Nat]

\* Types: in every version what is delivered is shipped, what is shipped is
\* fulfilled, what is fulfilled is ordered, and what is dismissed came back.
TypeOK ==
    /\ status \in {"open", "canceled", "archived"}
    /\ version \in Versions
    /\ item \in [Versions -> [Lines -> Counters]]
    /\ \A v \in Versions, l \in Lines : LET row == item[v][l] IN
         /\ row.delivered <= row.shipped /\ row.shipped <= row.fulfilled
         /\ row.fulfilled <= row.quantity
         /\ row.dismissed <= row.received
         /\ row.requested <= row.quantity /\ row.received <= row.quantity
         /\ row.writtenOff <= row.quantity
    /\ change \in [Changes ->
            [status : {"none", "requested", "confirmed", "declined"},
             act : Acts \cup {NoAct}, applied : BOOLEAN]]
    /\ settling \in [Staff ->
            [op : {"idle", "confirm", "decline"},
             change : Changes \cup {"none"}, from : 0 .. MaxVersion]]
    /\ return \in [Returns ->
            [status : {"none", "requested", "partially_received", "received"},
             line : Lines, quantity : Nat, received : Nat, damaged : Nat,
             located : BOOLEAN]]
    /\ shelf \in [Lines -> Nat]
    /\ parcel \in [Parcels ->
            [state : {"none", "open", "shipped", "delivered", "canceled"},
             version : Versions, line : Lines, quantity : Nat]]
    /\ landed \in [Changes -> Nat]
    /\ dropped \subseteq Lines

\* A parcel never gets stuck: whatever was edited since it was packed, the
\* version it was packed from has room for it to leave, to arrive, or to be
\* cancelled (move_quantities, cancel_fulfillment_with, carry_forward).
ParcelsMove ==
    \A v \in Versions, l \in Lines :
        /\ item[v][l].shipped + Carried("open", v, l) <= item[v][l].fulfilled
        /\ item[v][l].delivered + Carried("shipped", v, l) <= item[v][l].shipped

\* What returns say of a line, in all.
AskedIn(r, l) == IF return[r].line = l THEN return[r].quantity ELSE 0
CameIn(r, l)  == IF return[r].line = l THEN return[r].received ELSE 0
SoundIn(r, l) == IF return[r].line = l /\ return[r].located
                 THEN return[r].received - return[r].damaged ELSE 0
Asked(l)    == Sum([r \in Returns |-> AskedIn(r, l)], MaxReturns)
CameBack(l) == Sum([r \in Returns |-> CameIn(r, l)], MaxReturns)
Sellable(l) == Sum([r \in Returns |-> SoundIn(r, l)], MaxReturns)

\* The order's newest version and its returns say the same, whichever edits,
\* claims and parcels came in between, and what came back whole is in stock
\* once (carry_forward, bump, receive_return, restock).
ReturnsCounted ==
    \A l \in Lines :
        /\ shelf[l] = Sellable(l)
        /\ l \notin dropped => /\ item[version][l].requested = Asked(l)
                               /\ item[version][l].received = CameBack(l)

\* A return that was asked for can be taken in: no edit takes away the room its
\* line needs (order_item's constraints), unless it removes the line.
Receivable ==
    \A r \in Returns :
        LET l == return[r].line IN
        l \notin dropped =>
            item[version][l].received + return[r].quantity - return[r].received
                <= item[version][l].quantity

\* However many transactions settle a change at once, its action lands on the
\* order at most once (confirm_change, order_change_action.applied).
AppliedOnce == \A c \in Changes : landed[c] <= 1
=============================================================================

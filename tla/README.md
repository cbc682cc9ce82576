# tezgah in TLA+

tezgah is a commerce backend: a Rust crate (`src/`) that owns tables in one
Postgres, and a server (`app/server/`) and panel (`app/client/`) built on it.
This directory holds a TLA+ model of the parts of it that are hard to test
(what several transactions, passes and processes do to the same rows), the TLC
configurations that check the model on small instances, and TLAPS proofs of
what holds for every value of the constants.

Paths in this file are relative to the repository. `PROJECT.json` maps every
definition to the lines it models.

    tlc -workers 2 -config workflow_locked.cfg MCWorkflow    # check a run
    tlapm WorkflowProofs.tla                                 # check the proofs

## 1. The system

Every function of the crate takes an open transaction from its caller and
leaves the commit to it, so what one function does is one atomic action, at
READ COMMITTED: each statement sees what was committed when it began, an
`update ... where` waits for a row lock and looks at its predicate again. What
is not atomic is (a) the workflow engine, which opens its own transactions,
(b) the sequence of statements in one transaction when another transaction
commits in between and the later statement does not look again, and (c) the
server's loops, which claim, do and write back in three transactions.

| component | state it keeps | operations | what is hard | what makes it correct |
|---|---|---|---|---|
| workflow engine, `src/workflow.rs` | `workflow_run`, `workflow_step` (state, attempts, lease, locked_by), `workflow_dead_letter`, an advisory lock | `run`, `start`, `work`, `recover`, `unwind`, `held` | drivers that race, die, come back; a provider that did or did not hear the call; a compensation that fails | a step takes effect at most once, a provider is called once, what failed is undone latest first, a run's state is true of its steps, a run ends |
| checkout, `src/checkout.rs` | none of its own: nine steps over the modules below | `place` | a step fails after others took stock, credit and promotions | everything taken is given back, or an order has it |
| inventory, `src/inventory.rs` | levels (`stocked`, `reserved`), reservations, lots and what each reservation claims of them | `reserve`, `release`, `fulfil`, rebind, expire, transfer, adjust, lots | a sweep against a checkout, an edit against both; two tables that must add up | what is reserved is what reservations say; never more than there is |
| payment, `src/payment.rs` | collections, sessions, payments, captures, refunds, webhook events | authorize, capture, refund, cancel, record and apply webhooks, recompute | an event that arrives twice, late or out of order; two refunds | refunded <= captured <= held, the collection and the order's ledger agree, a closed session stays closed |
| credit, `src/credit.rs` | gift cards, store credit entries | redeem, restore, refund_to_credit | a restore run again | a balance is the sum of its entries; given back once |
| promotion, `src/promotion.rs` | use counters, campaign budgets | claim, release, charge, uncharge | the last use claimed twice; a release that gives back another's | never above its limit; released is what was claimed |
| order, `src/order.rs` | status, versions of lines, changes, returns, ledger | cancel, confirm_change, receive_return, move_status | what is checked before the lock; a version copied while a parcel is open | money, stock and lines of an order agree |
| fulfilment, `src/fulfilment.rs` | fulfilments (packed, shipped, cancelled), quantities | create, ship, cancel | against cancel and edits | never more shipped than ordered, stock moves once |
| subscription, `src/subscription.rs` | contracts, cycles, dunning | renew, decline, pause, swap | a renewal asked for twice, refused and counted twice | a cycle is charged once, counted only when paid; what ended stays ended |
| cart, `src/cart.rs` | lines, completed_at, expiry | complete, expire | the sweep against the checkout | a completed cart keeps its stock |
| payout, `src/payout.rs` | earnings and payouts | `create_payout` | two at once | paid at most what was earned; a refund takes off what was earned |
| digital, `src/digital.rs` | download tokens | `redeem` | the last download | limit kept; open only while paid for |
| server outbox, jobs, schedule, `app/server/src/deliver.rs`, `host.rs`, `schedule.rs` | deliveries and jobs with a claim and an attempt count | drain, sweep | a claim that outlives its minute | delivered or given up, and given up only when its tries are used up |
| server identity, shoppers, files, http | tokens, files | request handlers | one transaction each | row filters |
| providers, `src/providers/` | none | charge, refund, ask | the network | modelled from outside |
| tax, pricing | rows read, amounts computed | pure | rounding | parts add up to the whole |
| catalogue, store, customer | rows | edits | constraints of the schema | schema |
| ports, ids, pages, errors; `src/api/`; client | types, parsing, presentation | - | - | - |

Interaction: a request handler or a loop of the server opens a transaction
and calls a module; `checkout::place` and `subscription::renew` hand a list of
steps to the engine, which calls the modules in transactions of its own and the
payment provider in none; the modules call each other inside one transaction
(`order::cancel` releases stock and payments, `fulfilment::create_fulfillment`
ships units of inventory, `cart::expire` gives holds back). They share rows,
and nothing else.

## 2. Modules

| module | what it is |
|---|---|
| `Workflow` | the engine: one run, its rows, and the passes that drive it |
| `Saga` | what a run promises, with no rows, leases or passes: the abstract specification of `Workflow` |
| `Inventory` | one item counted by quantity: its levels, its reservations, and the carts, orders, parcels, sweeps and staff that move them |
| `Payment` | the money of one order: its collection, session, payment, captures, refunds, ledger, digital lines and payout lines |
| `Checkout` | checkouts that share a promotion, a budget, gift cards and balances |
| `Pool` | what a promotion with a limit promises: the abstract specification of `Checkout`'s uses |
| `Order` | one order's lines, version by version: changes, returns, exchanges, claims, parcels |
| `Renewal` | one subscription contract and the calls that renew it |
| `Outbox` | the two tables the server writes for later, and the loops that empty them |
| `Sums` | sums over an interval, as a recursive function, for `Inventory` and `Order`; sums over a set of rows are the community modules' `SumFunctionOnSet` |
| `MC...` | plans, owners and symmetry for TLC, one beside each of the seven |
| `...Proofs` | theorems, one beside each of the seven; `SumsProofs` has what sums over an interval and over a finite set obey |

The modules meet in rows of one order, and each takes what it does not model
from the one that does. `Checkout`, `Inventory` and `Payment` are three views of
one checkout: what its steps do to promotions and credit, to stock, and to
money; each takes the engine for what `Saga` says of a run (a step takes effect
once, what was done is undone latest first). `Renewal` takes the engine for
`Saga` with its lock. `Inventory` and `Order` are two views of a parcel and an
edit: what they do to the hold, and what they do to the counters of a version.

No run asks whether it can deadlock: a run that has settled, a shop that has
closed and an outbox that is empty may stop. Constants named `Max...` which the
sections below call bounds occur only in guards, or as the range of a row's
number.

### 2.1 The workflow engine

A *pass* is one execution of `run` (`Callers`) or of the body of a `work` loop
(`Loops`), each with a worker id of its own; what it holds when it ends is held
by `Gone`.

| code | model |
|---|---|
| `workflow_run.state` | `run` (`"none"`: no row) |
| `workflow_step.state, attempts, lease_until, locked_by` | `step, attempts, lease, holder` |
| what `prepare` wrote down | `prepared` |
| `workflow_dead_letter` | `dead` |
| `pg_advisory_lock` on the key (`Locked`) | `lock` |
| `run`: lock, `claim`, `lease_run` | `Acquire`, `Claim`, `LeaseSnapshot` and `LeaseRun` |
| `start`; `take` | `Start`; `Take` |
| `recover`; `held` and time | `Recover`; `Expire` |
| `drive` | `Head`, `ReadSlot`, `Join`, `Release`, `Park`, `Finish` |
| `invoke_direct` | `ClaimDirect`, `InvokeDirect`, `InvokeFails`, `Reject` |
| `invoke_reaching`, `stall` | `ClaimPrepare`, `Prepare`, `Call`, `Resume`, `Stall`, `Record`, `RecordFails` |
| `unwind` | `Mark`, `ReadBack`, `Undo`, `DeadLetter`, `Settle` |
| a process that dies, a database call that fails | `Die`, `DatabaseFails` |

`lease_run` is one statement and two actions: READ COMMITTED gives the
statement one snapshot, so its `held_elsewhere` count is of the state before it
waited for the row locks, while the rows it leases are looked at again. What a
step does is `applied`, what its compensation does `undone`: counts of committed
transactions, since a step's own writes and its row are committed together. A
direct step that answers Waiting counts no effect. A compensation of a
reaching step that had nothing to ask does nothing, and is not counted. `heard`
holds the steps whose call the provider has been sent. How often it was called is
not counted: `resume` is by default `self.call` (`src/workflow.rs:266`), which is a
replay under the key `prepare` wrote, so calling again is what the engine does after
a crash, and what makes it harmless is that there is one key (`OneQuestion`).

Abstractions, each for a reason:

- Time is `Expire`: a lease runs out only when the pass that holds it is over.
  `held` renews leases three times within LEASE while a pass goes on, so a pass
  that is going keeps its rows. `touch` leaves a failed row out; what is done to
  one is assumed to take less than LEASE.
- Nothing in the crate settles a step that waits: the documentation leaves that to
  what is outside (`src/workflow.rs:98`), and `extend`, the public function
  beside it, is called by nothing. So a run that waits stays waiting.
- A reaching step stands alone in its slot, as `PlanAssumption` says: `parallel`
  takes only direct steps. A direct step that waits may share one.
- A pass that cannot take the lock leaves nothing behind, so it is `Acquire`
  not happening.

| run | instance | shows |
|---|---|---|
| `workflow_locked` | 3 steps, two of them in one slot, a reaching last one; two callers of a locked key, 2 faults, `recover` | `TypeOK`; `SettledFaithful`: Done, Reverted and Failed are true of the rows; `IsSaga`: the run implements `Saga`; `PassesEnd`: whoever asks for it is done with it some day |
| `workflow_contended` | 2 steps, the second reaching; a caller and a loop that recovers, on a key nothing locks, 2 faults | `OneInvoker`, `OneQuestion`; `WorkedOff`: the loop ends what was begun, unless it overlooks it |
| `workflow_two_drivers` | 2 direct steps, two callers, no lock, no fault | violation of `SettledFaithful`, see section 4 |

`OneInvoker` is of passes inside a step: invoking it, preparing it, or waiting for
its call. It leaves out the pass that finds the row called and asks what became of
it, because nothing keeps that one out: `ResumedAlone` says something does, as the
comment of `lease_run` has it, and fails. `Concludes`, that every run ends or waits,
fails too, and `WorkedOff` is what is left of it (both in section 4).

Bounds. Two attempts tell the first, the last and the one too many apart. Three
steps are the least that have a slot of two and one after it. Two faults let a
pass die and the one that takes over fail as well. `MaxPending` bounds how often
a provider is undecided, `MaxFaults` how often something fails; both occur only
in the guards of `Die`, `DatabaseFails` and `RecordFails`. Two passes are the
least that race for an unlocked key; more of them are what `OneInvokerAlways` and
`OneQuestionAlways` prove.

Fairness (`FairSpec`). A pass that is going keeps going: the process is scheduled,
and `Die` is how it may not be. A lease runs out: it is a time. A loop takes
what it finds, and calls `recover` before each time it looks (`work`), infinitely
often, so strong fairness of `Recover` is what a loop that goes round gives even
though leases come and go between its rounds. Nobody is bound to ask for a run, or
to ask again, and a host without loops is bound to nothing.

Nothing in the repository runs such a loop: `recover` and `work` are public, are
called by no other code (`tests/reachable.rs:240`, `:250`), and the server spawns
neither. So `PassesEnd` assumes no loop and says only that what was begun by a pass
is done with by that pass, `WorkedOff` and `Concludes` are about a host that runs
one, and in this server a run whose pass died waits until somebody asks for its key
again.

### 2.2 Inventory

A *purchase* is a checkout of a cart with one line, a renewal, or a paid
delivery, and becomes one order. A *hold* is the reservations of a purchase's
line, one per location, or (`Unnamed`) a reservation in no line's name.

| code | model |
|---|---|
| `inventory_level` | `stocked, reserved`; `available_quantity` is `Available` |
| `reservation_item` | `held`, 0 where there is no row; `due` for those past `expires_at` |
| `cart`, `cart_line_item.quantity` | `cart`, `line` |
| `order_item.quantity, fulfilled_quantity`, version by version | `ordered, packed` |
| `fulfillment` and its item | `parcel` |
| how far a checkout or a renewal is | `stage` |
| what `cart::expire` has read | `sweep` |
| `reserve_stock`, `create_order`, `complete_cart`, compensations | `Reserve, ReserveRenewal`, `Place`, `Complete`, `Undo` |
| `subscription::deliver` | `Deliver` |
| `cart::update_line` | `ChangeCart` |
| `cart::expire`, `release_cart` | `SweepPick`, `SweepRead`, `SweepFinish`, `SweepFails` |
| `expire_reservations` | `Expire` |
| `reserve`, `release`, `fulfil` by staff | `HandReserve`, `HandRelease`, `HandFulfil` |
| `confirm_change`, `rescale_line`, `carry_forward` | `Edit`, `Remove` |
| `create_fulfillment`, `fulfil_units`, `take_held` | `Pack` |
| `cancel_fulfillment`, `unfulfil_units`; `mark_shipped` | `CancelParcel`; `Leave` |
| `order::cancel` | `CancelOrder` |
| `set_stock`; `adjust_stock`; `transfer_stock` | `SetStock`; `AdjustStock`; `Transfer` |

`touched`, `short`, `counted` and `stale` are not in the code: they remember that
somebody did something to a purchase's hold which the checkout did not ask for, that
more was promised somewhere on purpose, what was ever counted in, and where a sweep
gave back what a hold no longer was.

A sweep that has read a hold takes no lock on it (`release_lines`,
`src/inventory.rs:1772`), and nothing waits for it: the checkout completes, staff
pack, edit and cancel between its read and its delete. The delete is by id, so it
asks only whether the rows are there; `sweep.replaced` says that one of them was
deleted and a new one written since, which has another id. What it lowers the level
by is what it read. Every step that lowers a level is refused, and its transaction
taken back, where the check constraint on `reserved_quantity` would be broken
(`LevelsAllow`, and a guard in each of the others).

Restrictions, each named in the module:

- One transaction is one action, but for `cart::expire`. An order edit is one action
  too, so what a parcel packed inside an edit does to the hold is not explored.
- Staff reserve in no line's name only, though the API would take a line.
- A parcel is packed from the current version of an order (`Order` packs from any).
- A sweep deletes one cart. The code sweeps a batch in one transaction; one
  cart's conflict takes the whole batch back, which is several `SweepFails`.
- The item is counted by quantity: lots and serials are left out.

| run | instance | shows |
|---|---|---|
| `inventory` | one purchase of up to 2 of 2 units, one hold by hand, one sweeper, one edit, two parcels, two locations | `TypeOK`, `HoldsAddUp`, `HoldCovers`, `GoodsConserved`, `NeverOversold`, `HoldsNameACart` |

Bounds. Two units, in one line or two parcels, are the least that tell part from
all and ratio from amount; two locations let a parcel leave from another than the
hold's; one edit and two parcels cross in both orders. The purchase, its edit, the
hold by hand and a transfer are the rivals for the last units; a second purchase
with amounts would not finish, and is what the theorems are for: they have any
number of purchases, edits and sweepers. `MaxGoods`, `MaxEdits`, `MaxParcels` and
`Quantities` are only bounds.

What the properties leave out, because the code does. `HoldsAddUp`: a location
where a sweep gave back a hold that had changed (`stale`), which the run reaches:
`ReservedIsPromised` is the same with nothing left out, and fails. `HoldCovers`: an
order whose cart was changed while it was bought, or whose hold was touched by hand,
by a sweep, or bypassed by a parcel from another location (`touched`); and an order
edited with a parcel already packed, even if that parcel was cancelled since
(`Uncrossed`), so that packing, cancelling, editing and packing again is outside it.
Section 4 describes each.

### 2.3 Payment

One order with one payment collection, one session and one payment: a checkout
authorises it, and *workers*, transactions of the staff, capture, refund, cancel
and complete the order meanwhile.

| code | model |
|---|---|
| `payment_session.status` | `session` |
| `payment` (amount, instalment difference, `canceled_at`) | `payment` |
| its `capture` and `refund` rows, summed | `taken`, `given` |
| gift cards and store credit in the order's name | `credit` |
| `payment_collection`: its amounts and status | `collection`; `recompute` is `Summed` and `Named` |
| `order.status` | `order` |
| `order_transaction`, by reference | `ledger` |
| `digital_entitlement` | `entitled` |
| `payout_line`, one per capture | `lines` |
| `AuthorizePayment`: prepare, call and resume, record | `Prepare`, `Call`, `RecordHold`, `RecordWait`, `RecordFails` |
| its compensation; `RedeemCredit`'s, next in the unwinding | `CompensateSession`, `CompensateHold`, `CompensateRefused`; `RestoreCredit` |
| `settlement::capture`: `capture_only`, then everything it books | `CaptureBegin`, `CaptureEnd` |
| `settlement::refund`: `refund_only`, then everything it books | `RefundBegin`, `RefundEnd` |
| `order::cancel` and `unwind` | `CancelRead`, `CancelHold`, `CancelEnd`, `CancelMoved` |
| `digital::grant`, `digital::revoke` | in `CaptureEnd`, `RefundEnd` |
| `credit::refund_to_credit` | `RefundToCredit` |
| `record_earning`, `split`; `record_reversal` | in `CaptureEnd`, `RefundEnd`: `Earned`, `Reversed` |
| Postgres ending a wait in a circle | `Abort` |

A capture and a cancellation take their two row locks in opposite orders: the
capture has the payment and writes the order's ledger (whose trigger locks the
order), the cancellation has the order and releases the payment. `tx` says what a
worker has read, and the actions are split exactly there; `Deadlocked` is the
circle and `Abort` ends it by taking one back.

A digital line is granted where the ledger's captures, refunds and credit lines
come to the order's total (`digital::grant`, `src/digital.rs:365`), so the credit
`RedeemCredit` wrote as a credit line counts (`holding`), and only a capture or a refund
asks (`grant`, `revoke`). A refund to credit writes a refund row to the same ledger,
and asks nothing: `to_credit` is how much of what was paid went that way, and
`GrantedIsPaid` leaves it out. `GrantedIsHeld` is the property without that
exception, and fails (section 4).

Left out: a second payment of the same collection; webhooks, which record an event
in a form that applying refuses (section 4); saved methods, instalment tables,
payouts as such.

| run | instance | shows |
|---|---|---|
| `payment` | an order of 3 units of money, credit of 1 or 3, an instalment difference and a commission of 0 or 1, digital lines that the whole of the order pays for, 2 refunded to credit, two workers | `TypeOK`; `Covered`, `BooksAgree`, `SharesAddUp`, `GrantedIsPaid`, `CancelReturns` |
| `payment_reopened` | the same | violation of `ClosedStaysClosed`, see section 4 |

Bounds. 3 is the least amount that can be taken in two parts and given back in
parts across them, so that a commission of 1 is rounded; a credit of 3 leaves
nothing to ask a card for. Two workers and the checkout are three transactions at
once: each pair of operations meets, with a third before or after. Nothing
about this module is said to happen eventually: captures are the staff's choice.

### 2.4 Checkout

Several carts are checked out at once, each once; a step of a checkout is one
transaction and one action, but for `RedeemCredit`, which reads a balance and takes
of it in two statements (`RedeemRead`, `RedeemTake`, and `RedeemAgain` when somebody
else spent it in between).

| code | model |
|---|---|
| how far a run is; whether it goes on, is unwound, is over | `stage`, `going` |
| the adjustments of the cart; what `ClaimPromotions` kept | `gives`; `claimed` |
| `promotion.used`, `promotion_usage.used` | `used`, `mine` |
| `campaign_budget` or `campaign_budget_usage` | `budget` |
| `order.status`, its adjustments | `order`, `gave` |
| "redeem" and "refund" rows of gift cards and store credit; balances | `spent`, `refunds`, `balance` |
| `promotion::take`, `charge_budget` | `ClaimPromotions` |
| `release`, `release_budget` | `ReleaseClaim`, and in `Cancel` |
| `CreateOrder`, `order::erase` | `CreateOrder`, `EraseOrder` |
| `redeem_gift_card`, `redeem_store_credit`; `restore_*` | `RedeemTake`; `RestoreCredit` |
| `order::cancel` with `release_promotions` | `Cancel` |
| `credit::refund_to_credit` | `RefundToCredit` |
| `promotion::apply` after the shopper changed the cart | `Reprice` |

A cancellation, a refund to credit and a change of the cart may come at any moment
of a checkout, as in the code: `order::cancel` takes any pending order, and
counts on some whose checkout is parked (`src/order.rs:1821`). What follows is a use
given back twice, or a budget given another amount than it was charged, and the
counters clamp at 0 (`release`). Three variables that are not in the code remember it:
`back` and `backed`, how many uses and how much of the budget came back for a cart,
and `touched`, the carts that something else happened to while their checkout ran.
`credited` is what staff refunded to credit. A use *stands* for a cart that
took it and had none back; a use that came back and was not taken is a *stray*.

What is true in spite of the clamp is a pair of bounds (`Counts`): a counter is at
most what the carts still have, and at least what they took less everything that
came back. Where nobody gave back more than he took both are the same number. So
`UsesCounted`, `BudgetCounted` (in `MoneyKept`) and `IsPool` (as many uses stand as
the limit says, and one more for each stray) leave nobody out, and
`GivesBackOnce` says of the carts left alone that there are no strays among them.
The limit itself (`WithinLimit`) and the restoration (`Restored`) fail, see section 4.

Limits are given, never null. A cart is checked out once: the key of a run is its
cart. `MaxReplays` bounds how often a compensation runs once more than it should,
which two drivers of one run (section 4) make possible. Nothing is said to happen
eventually: no code of the repository drives a checkout whose caller has gone
(section 2.1).

| run | instance | shows |
|---|---|---|
| `checkout` | two carts of one customer, who pays from her account, for the one use of a promotion; adjustments of 0 to 2 against a spend budget of 2, one replay | `TypeOK`, `GivesBackOnce`, `UndoneWhole`, `MoneyKept`, `UsesCounted`, `IsPool` |
| `checkout_touched` | two carts of a customer and one of a guest, for the one use of a promotion, no replay | violation of `WithinLimit` |

Bounds. An account that covers one order and not two lets the second read what the
first takes; adjustments of 1 and 2 let what is given back differ from what was
claimed, and a budget of 2 refuse what a use would allow. With one use two carts
are the least at which one is refused, or takes what the other gave back, or loses
its use to a stray; three are the least at which a third then takes it.

### 2.5 Order

An order's lines, version by version, with every counter of `order_item`.

| code | model |
|---|---|
| `order.status`, `order.version` | `status`, `version` |
| `order_item` by version and line | `item`; its check constraints are `Legal` |
| `order_change` and the one action on it | `change` |
| what a transaction has read before it holds the order | `settling` |
| `order_return` and its item; what it put into stock | `return`; `shelf` |
| `fulfillment` and its item | `parcel` |
| `request_change`, `add_action` | `RequestChange`, `AddAction` |
| `confirm_change`, `carry_forward`; `decline_change` | `ReadChange`, `ReadOrder`, `ConfirmChange`, `SettleRefused`; `DeclineChange` |
| `request_return`, `request_exchange`, `request_claim` | `RequestReturn`, `RequestExchange`, `RequestClaim` |
| `receive_return` and `restock`; `dismiss_return` | `ReceiveReturn`; `DismissReturn` |
| `create_fulfillment`, `mark_shipped`, `mark_delivered`, `cancel_fulfillment` | `CreateFulfillment`, `MarkShipped`, `MarkDelivered`, `CancelFulfillment` |
| `order::cancel`; archiving | `Cancel`; `Archive` |

`landed` counts how often a change's action was applied, `dropped` remembers the
lines removed after something of them was asked back. `request_return`, an exchange
or a claim opens a change and confirms it in one transaction, which no other open
change can enter (a unique index), so each is one action; a confirmation by staff
is split where it reads. A change has at most one action, of an item; a return
and a parcel have one item. Money, totals and stock are left to the other modules.

`order` has one line of two units, one change, two transactions that settle it,
one return, one parcel and four versions. It checks `TypeOK`, `ParcelsMove`,
`ReturnsCounted`, `Receivable` and `AppliedOnce`. Four versions let an edit, a
return and its receipt, or a claim, pass over a parcel that was packed from the
first; two units tell a part from the whole. `MaxVersion`, `MaxQuantity`,
`Quantities` and `Packs` bound it.

### 2.6 Renewal

One contract, and the cron, job workers and staff that call `renew` (`Callers`).
Time is counted in billing periods.

| code | model |
|---|---|
| `subscription` | `contract`; `pending_adjustment` is its `owing` |
| `workflow_run` by transaction key, and what it carries | `run` |
| `subscription_order` by cycle, and whose run wrote the row | `billed` |
| charges a provider holds | `held` |
| `renew`: read, run, afterwards; `decline` | `Ask`, `Take` or `GiveUp`, `Told`; `Decline` |
| `LoadContract`; price, stock and tax | `LoadContract`; `Unable` |
| `CreateOrder`, its compensation | `ReadOwing`, `CreateOrder`, `UndoOrder` |
| `ChargeStoredMethod`, its compensation | `ChargeStoredMethod`, `Refuse`, `UndoCharge` |
| `AdvancePeriod` | `AdvancePeriod` |
| `cancel`, `pause`, `resume`, a swap to a dearer plan, `skip_next` | `Cancel`, `CancelAtPeriodEnd`, `Pause`, `Resume`, `Swap`, `SkipRead` and `SkipNext` |
| time | `Tick` |

The engine is what `Saga` says: a run settles once, a caller that dies leaves it
where it was, the next one goes on, one at a time under the contract's lock.
Left out: versions of a contract's lines, the credit of a cheaper swap, deliveries
of a prepaid plan (their stock is `Deliver` in `Inventory`), plans without a last
cycle. A provider answers yes or no: `Call` and `Resume` of `Workflow` cover what
lies between.

| run | instance | shows |
|---|---|---|
| `renewal` | two callers, a plan of two cycles, two refusals, three periods, one death, two requests of the shopper | `TypeOK`, `ChargedOnce`, `CyclesPaid`, `CollectedOnce`, `EndedStays` |
| `renewal_stuck` | one caller, no requests, no deaths, fair | violation of `Renews`, see section 4 |

Bounds. Two cycles let a late run of the first meet one of the second; a second
refusal makes a second key for a cycle; two requests are the least that pause and
resume, or swap and swap again. `MaxClock`, `MaxDeaths` and `MaxRequests` are only
bounds. `FairSpec` lets time pass and calls go on: the cron polls every contract
that is due.

### 2.7 Outbox

`server_event`, posted to one destination, and `server_job`, dispatched inside the
process, share a form and a loop; a behaviour is of one of them (`table`).

| code | model |
|---|---|
| `created_at` order; `attempts`, `delivered_at`/`done_at`, `dead_at` | `Rows`; `row` |
| `next_attempt_at`, `run_after` | `due` |
| the batch a loop took, and what it read of it | `hand`, `read` |
| `emit`, `enqueue` | `Emit` |
| `drain_once`: claim; post or dispatch; write the outcome | `Claim`; `Try`; `Record` |
| the moment a row was put off to passes | `Lapse` |
| a process that dies, an outcome that cannot be written | `Die` |

A claim is a row put off, in nobody's name. `MayLapse` says when it can run out
under a loop that still has the row: an event's first claim lasts a minute, and a
batch of 10 may take 10 seconds each; later claims of an event last longer than
any batch; a job takes as long as it takes. `late` remembers whose claim has run
out and `tries` how often a row was tried and failed.

`outbox` has two rows, two loops, a batch of two, three attempts where the code has
five, and one death. It checks `TypeOK`, `GivenUp` and `Settles`. With fewer than
three attempts the two loops that hold one event after its first claim lapsed could
use up all of them between them, so the module assumes three. Fairness: the loops
tick every five seconds, a try ends (a post has a timeout of ten seconds; that a
job's dispatch returns is assumed, since it has none), and time passes.

## 3. What is proved

Every theorem is for every value of the constants the assumptions allow: any plan,
any number of passes, purchases, parcels, carts, workers, any amounts. Each module
of proofs has an inductive invariant `IndInv` and a theorem `Spec => []IndInv`
(`...Invariance`); four have a second one that rests on it (`SagaInv`, `BooksInv`,
`SharesInv`, and `Counted` with `BalanceKept`); the rest are corollaries. Every
invariant and every action property a passing run checks is stated by a theorem, and
so are the two refinements.

| module | theorems | assumptions, named in the module proved about |
|---|---|---|
| `WorkflowProofs` | `Invariance`, `TypeCorrect`, `OneInvokerAlways`, `OneQuestionAlways`; `SettledFaithfully`, `RunsAreSagas` | `CountsAssumption`, `PlanAssumption`, `WorkersAssumption`; the last two for a key that is locked and driven by no loop (`Locked`, `Loops = {}`) |
| `InventoryProofs` | `InventoryInvariance`, `HoldsAlwaysAddUp`, `HoldsAlwaysNameACart`, `NoReleaseRefused`; `BooksInvariance`, `NeverEverOversold`, `GoodsAlwaysConserved`, `HoldsAlwaysCover`, `InventoryTypes` | `SizesAssumption` |
| `PaymentProofs` | `PaymentInvariance`, `CoveredAlways`, `BooksAlwaysAgree`, `GrantedAlwaysPaid`, `CancelAlwaysReturns`; `SharesInvariance`, `SharesAlwaysAddUp`, `PaymentTypes` | `AmountsAssumption` |
| `CheckoutProofs` | `CheckoutInvariance`, `AlwaysGivesBackOnce`, `AlwaysUndoneWhole`; `UsesAlwaysCounted`, `AlwaysWithinLimit`, `CheckoutsSharePool`; `MoneyAlwaysKept`, `CheckoutTypes` | `CheckoutAssumption` |
| `OrderProofs` | `OrderInvariance`, `OrderTypeCorrect`, `ParcelsAlwaysMove`, `ReturnsAlwaysCounted`, `AlwaysReceivable`, `AppliedAtMostOnce` | `OrderAssumption` |
| `RenewalProofs` | `RenewalInvariance`, `RenewalTypeCorrect`, `ChargedOnceAlways`, `CyclesAlwaysPaid`, `CollectedOnceAlways`, `EndedStaysEnded` | `PlanAssumption` |
| `OutboxProofs` | `OutboxInvariance`, `OutboxTypeCorrect`, `GivenUpAlways` | `OutboxAssumption` (three attempts or more) |

`Workflow`, on any key. `OneInvoker` is not inductive: that two passes are not
inside one step says nothing about the row. `ClaimInv` adds that a pass inside a
step holds its row with a live lease, and that the row says so; a lease is given
only on rows that are free, and `Expire` needs a pass that is over. `OneQuestion`
is not inductive either: `PrepareInv` adds that a row which still can be claimed has
nothing prepared for it, and any other was prepared once; `CallInv` that a call or a
question is made from a row that was prepared, and a first call by one pass.
`UnwindInv` is what keeps it so: compensation moves only rows that were `done` or
`called`, and they never become claimable again. That attempts never pass the
ceiling rests on `AskInv`: a pass which asks the provider again, and still holds the
row, has an attempt left. Each action is looked at once:
`Quiet(w)` says what a step of a pass outside its futures leaves alone,
`PassIsQuiet` that each of fourteen actions is such, `QuietKeeps` that such a step
keeps the invariant; `Local(w, s)` and `Point(w, s)` say what one future does to
its own row, `FutureIsLocal` that each of twelve actions does just that,
`PointKeeps` that it suffices. Leasing, recovery and expiry are treated one by
one.

`Workflow`, on a locked key. `SettledFaithful` is false of a key that nothing
locks, as `workflow_two_drivers` shows, and a loop never takes the lock; so these
two theorems say `Locked` and `Loops = {}`, as `workflow_locked` does: the key is
locked, and only those who lock it drive the run. `SagaInv` adds to `IndInv`:
`SoleInv`, the pass that has the lock is the only one not idle; `EffectInv`, the
row of a step tells what has been applied and undone of it; `OrderInv`, a step is
begun only when the slots before its own are behind the run; `SlotInv` and
`PhaseInv`, where a pass and its futures are tells what the rows and the run say,
since nobody else writes them; `WaitInv`, a run that waits has a step that does,
and none that kept something waits behind a run that unwinds; `BackInv`, what the
walk back left standing is in the dead letters, and the pass will not call the run
reverted. `Saga` is then implemented step by step: each action of the engine is a
step of the saga (`SagaStep`) or one it does not see.

`Inventory`, the holds. `HoldsAddUp` is inductive with the types it needs and what
has an order or a parcel, and no step is kept out while a sweep is between its
statements: a step moves one hold, or empties some, and does the same to the level. A
sweep does to the level what it read; it finds the hold as it was read, or the
location is `stale` from then on. A sum is no less than any of its terms, so outside
`stale` no hold is more than its level, and the check constraint refuses nothing
(`NoReleaseRefused`). Sums are running totals over the holds.

`Inventory`, the goods. `BooksInv` rests on `IndInv` and adds up shelves, orders
and parcels: `Shelves`, no level is below nothing; `ParcelStands` and
`PackedStands`, a parcel is of a version of a placed order, and each version
counts at least what its open parcels have in them and at most what was ordered;
`GoodsConserved` and `NeverOversold` as they are. A parcel moves units between one
shelf and what one version counts, so one term changes in each sum, by the same
amount. `Covered` follows one purchase from its first hold to its last parcel: as
long as nothing else touched it, the hold is all at one place until the first
parcel, so that an edit scales it exactly, and what is held is what the order has
still to ship. `TypeOK` follows: a level and what is reserved of it are never
below nothing because of what the sums say.

`Payment`, the order's money. `Covered` and `BooksAgree` are broken by a worker
that acts on what it read: `Locked` says that what a worker in the middle of a
transaction has read is still so, since the lock it holds keeps every other one
out, and `Unpaid` that a checkout which has not recorded its hold has no payment
for anybody to work on, that nothing is granted where nothing was taken, and that a
checkout which was undone holds nothing. `CancelReturns` follows: under `hold_order`
the ledger, so what is captured, keeps still until the cancellation ends.

`Payment`, the seller's lines. `SharesInv` is `SharesAddUp` with lines that are
lines and earned something. A capture adds one line, whose share is rounded
between nothing and the whole (`RoundedShare`), the rest being the commission. A
refund takes of the first lines all it can (`TakesAll`, by induction on how many
lines it has looked at), so all of the refund is taken if the lines have as much
left, which `SharesAddUp` says before the step; and what it takes of a line is
shared the same way, so that no more is taken back of a line than it earned
(`RefundShares`).

`Checkout`, the invariant. `Timely` ties the stage to the rows there are. `Alike` is
about the carts left alone: the order was given what was claimed, and what was
claimed comes back once. `Owed` is about any cart: beside what staff refunded, an
instrument has the redemption back whole or not at all, and whole once the step was
undone, unless a refund came first. `GivesBackOnce` and `UndoneWhole` follow.

`Checkout`, the uses. `Counted` needs nothing of who touched what: a step that takes
adds one to the counter and to the sum of what was taken; a step that gives back adds
one to the sum of what came back and takes one of the counter, or finds it at 0,
and either way both bounds of `Counts` stand (`CountsTake`, `CountsGive`). `used <=
UsageLimit` is a guard; that no more than `UsageLimit + Strays` uses stand
(`AlwaysWithinLimit`) is the lower bound with the sums sorted into those that stand
and the strays (`StandingAndStrays`). `CheckoutsSharePool` is the refinement: initial
states map to initial states, and each step takes a use, gives one back, makes a
stray or stutters.

`Checkout`, the money. `BalanceKept` says that an instrument holds what was issued,
less every redeem row, plus every refund row; a step moves one cart's term
(`OnSetMoves`). `MoneyKept` follows: by `Owed` a refund row is what staff refunded,
with the redemption or without it, so the redemptions that were put back cancel.

`Order`. A new version copies the counters of the one before, so what was true of
the newest is true of the next: `WriteKeeps` says so once for all the actions that
write one. `ParcelsMove` and `ReturnsCounted` are inductive only with `Numbered`
(a parcel is of a version there is, a later version has no rows) and `Bounded` (a
return takes in no more than was asked for); `Known` and `Marked` are what
`AppliedOnce` and the constraints of a change rest on.

`Renewal`. `ChargedOnce` rests on the unique row of a cycle: `Books` ties each run
beyond its order to the row it wrote and each charge to its run, so two charges of
a cycle would be two rows of it. `CyclesPaid` needs `Passed`: the cycles before
the one a run was loaded for, and those a skip has read, are accounted for, though
the contract's count is written from what was read; `CollectedOnce` needs
`ReadStill` and `Fresh`, what a caller in the middle of `CreateOrder` still knows
of the adjustment it read. `OneDriver` is the lock.

`Outbox`. `GivenUp` needs `Tallied`: what a row counts, or a loop read of it, plus
the failures about to be written, were tries. For events `Shared` says which loops
may hold one row: two at most, one of them by a first claim that lapsed, when it
has hardly been tried. For jobs, which any number of loops may hold, `Single` says
that a count that was read is below the limit.

`SumsProofs`. A sum over an interval is a recursive function, and its lemmas need
an induction on numbers, which `Upwards` takes from the library's theorem that
finite sets are well-founded by inclusion. A sum over a set of rows is
`SumFunctionOnSet`, a fold whose definition chooses a function with a recursive
property: `AddsExists` shows that there is one, by the same induction over subsets
(`Outwards`), and `AddsSums` that the fold is it. What the other modules cite is
small: the sum over nothing is 0 (`OnSetEmpty`), one element can be taken out
(`OnSetRemove`), a step that changes one term changes the sum by as much
(`OnSetMoves`), sums of numbers from 0 up are such numbers (`OnSetNat`), and a sum
may be taken group by group (`OnSetGroups`).

Only model-checked: `PassesEnd`, `WorkedOff` and `Settles` of `Outbox`, since
liveness under fairness and ENABLED are out of the prover's reach, and the
violations of section 4, which are about one instance each. Of induction over data
the proofs have `Upwards` and `Outwards` and need no more.

## 4. Where the code and its documentation disagree

By a run:

1. `workflow_two_drivers`. The loser of a race for the leases of an unlocked
   key does not see the winner: `held_elsewhere` is counted from the
   statement's snapshot (`src/workflow.rs:697`), `leased` is 0 and so is it, and
   `run` goes on to drive rows it holds none of. With the attempts used up by the
   winner it refuses the step, unwinds and settles the run while the winner's
   step commits. The doc says "exactly one comes away with the steps".
2. `payment_reopened`. `record_session` (`src/payment.rs:1163`) writes the status the
   provider opened a session with over whatever the row says by now. When
   `order::cancel` closed the session while the checkout's call was under way,
   `AuthorizePayment::record` (`src/checkout.rs:1519`) opens it again, and `authorize`
   attaches a payment to a cancelled order. `authorize` says (`src/payment.rs:1236`) "An
   answer for a session that is no longer open has nothing left to attach to", and
   `close_open_sessions` (`src/payment.rs:1715`) relies on it.
3. `checkout_touched`. `order::cancel` of an order whose checkout still runs gives the
   promotion's use back (`src/order.rs:1867`), and if a later step then fails
   `ClaimPromotions::compensate` (`src/checkout.rs:429`) gives it back again. If another
   checkout has a use, it is that one which is lost, and one more than the limit stands.
   The table checks `used <= usage_limit` (`migrations/0014_promotion.sql:76`), and the
   doc of `release` (`src/promotion.rs:1284`) counts on its clamp.
4. `renewal_stuck`. A renewal reverted for another reason than the card (no stock at
   that moment) counts no attempt, so the next poll makes the same key
   (`src/subscription.rs:2005`) and is handed the reverted run, then and ever after.
   The doc of `workflow` (`src/subscription.rs:1933`) says "the next poll retries the
   same cycle under the same key: resume, not repeat".

By TLC too, when the property is put into the configuration of the passing run named;
each stands in its module beside the weaker one that is checked and proved:

- `ResumedAlone`, `workflow_contended`. The pass that lost the race for the leases reads
  the row called and resumes it, which by default calls the provider again
  (`src/workflow.rs:271`), while the winner's call is under way. The comment in
  `lease_run` (`src/workflow.rs:699`) says called rows are leased like pending ones so
  that a second run of the key cannot resume a step the first one drives. `OneQuestion`
  holds: both calls carry the key that was committed once.
- `Concludes`, `workflow_contended`. `take` leases pending, compensating and called rows
  (`src/workflow.rs:1969`, `:1980`), `drive` runs failed ones too, and claims them
  only in its own name (`:1062`). A run whose pass died after a step was written
  failed is taken by the loop, loses the failed row, gives up as a conflict, and is
  taken again when the lease runs out, for ever; with no step due, it is never
  found. The doc (`:10`) says "Nothing is left half-done for somebody to find in the
  morning". `WorkedOff` holds.
- `ReservedIsPromised`, `inventory`. `release_lines` (`src/inventory.rs:1795`) lowers a
  level by what it read, and deletes what is there. When the checkout completes in
  between, and an edit rescales the hold or a parcel takes part of it, the level is no
  longer what its reservations hold: "`reserved` is what has been promised" (`:4`). A
  later release or parcel may then be refused by the constraint. `HoldsAddUp` holds.
- `CompletedStay`, `inventory`. `cart::expire` deletes the carts it picked by id
  (`src/cart.rs:1379`) without looking again at `completed_at`; its doc (`:1343`) says
  completed carts are never touched. The order keeps its hold, unless the sweep had
  read it.
- `GrantedIsHeld`, `payment`. `refund_to_credit` (`src/credit.rs:1097`) writes a refund to
  the order's ledger and pays the shopper's balance; only `settlement::refund`
  (`src/settlement.rs:132`) revokes what the money had granted. The line stays open
  while the ledger no longer holds its price. `GrantedIsPaid` holds.
- `Restored`, `checkout`. `restore_store_credit` puts a redemption back only where no
  refund row names the order and the balance (`src/credit.rs:1279`), and
  `refund_to_credit` writes such a row, whatever the checkout is at. The restoration
  then moves nothing, though the order is erased. `UndoneWhole` holds.

Seen while reading, with no run of their own:

Workflow engine

- A pass that parks the run on a waiting step (`src/workflow.rs:876`) does not release
  the leases of the steps after it, so a caller that comes back within LEASE is told
  (`:518`) that something else is driving it.
- A run whose pass died while finishing has no row `take` looks for
  (`src/workflow.rs:1951`; its doc, `:1827`): no loop finds it, a caller that asks again
  does. `Overlooked` has it.
- `touch` (`src/workflow.rs:2018`) leaves a failed row out, so the lease on a step that is
  being tried again is not renewed.

Stock

- `subscription::deliver` reserves in no line's name and writes an order that is not
  told (`src/subscription.rs:1692`): packing it takes other goods and leaves the hold for
  good, cancelling it gives nothing back. `Deliver` lets it happen.
- The shopper may change the line between `reserve_stock` and `create_order`
  (`src/cart.rs:898`): the order is for another quantity than its hold (`ChangeCart`,
  exempted by `touched`).
- `rescale_line` (`src/inventory.rs:1917`) writes a hold from what it read, and divides what
  is held by the old quantity: after a part was packed it rounds.
- A parcel may be packed from any version (`src/fulfilment.rs:1350`, `:1406`), and an
  edit copies what was packed of the version before (`src/order.rs:5189`): the same unit
  can be packed from two versions. `create_fulfillment` does not ask whether the
  order was cancelled. `CreateFulfillment` of `Order` lets both happen.

Orders

- The cart's adjustments may change between `ClaimPromotions` and `CreateOrder`, and are
  then not what a cancellation gives back: `GivesBackOnce` leaves such a cart out
  (`touched`), `MoneyKept` bounds what its budget says.
- `order::cancel` gives back the use of whoever owns the order by then: after a transfer
  (`src/order.rs:5443`) that is not who claimed it. It never restores a gift card or store
  credit.
- `add_action` may land after its change was confirmed. Removing a line with an open
  return, or archiving the order, makes the return unreceivable (`Receivable` leaves
  removed lines out, `dropped`). `dismiss_return` keeps no count by return.

Money

- `record_webhook` (`src/payment.rs:2056`) writes none of the columns `apply_webhook`
  requires, so an event it recorded can never be applied, against
  `docs/architecture.md:144`; the count of failed tries is written in the transaction
  that fails. Webhooks are not modelled for this reason.
- The trigger that derives an order's payment status sums before it waits for the
  order's row. `create_payout` (`src/payout.rs:559`, `:581`) reads the balance without a
  lock: two of them pay it twice. `refund_to_credit` has no upper bound; two
  restores at once both pass their `not exists`, and the unique index refuses one.
- Only `settlement::capture` calls `digital::grant`, so an order that credit pays for in
  full is never granted its digital lines: nothing is captured of it.
- A cancellation that released the hold of a checkout which then fails leaves the
  "payment_canceled" row of the ledger behind (`src/checkout.rs:1619`); `BooksAgree`
  leaves undone checkouts out.

Subscriptions

- `resume` moves `next_billing_at` only, and every `AdvancePeriod` adds one period to the
  old end: missed periods are billed one after another, which its doc (`:1125`) says
  they are not.
- `decline` looks at the status only (`:2050`): two callers told of one refused run
  count two refusals.
- `AdvancePeriod` overwrites a pause; a pause with an end keeps `paused_until` after a
  resume, `LoadContract` refuses, and the key is spent. A swap between
  `CreateOrder`'s read and its clear is lost. `ResolvePrice`'s compensation (`:2424`) sets
  a line's version back over a swap. A skip between `renew`'s read and
  `LoadContract` bills a cycle early. Skipping the last cycle leaves a contract active
  for good.

Server

- A job's loser writes `attempts` as it read it plus one, and clears `dead_at`
  (`app/server/src/host.rs:454`, against the comment at `:409`): it can revive a job given
  up. `Settles` holds all the same, since the last of them writes last.
- An event may be tried more often than its limit when its first claim lapses under
  a slow batch; `GivenUp` asks only that it is not less.

## 5. Plan

Done: the modules of section 2 and their proofs.

Left, in order:

1. `Lots`: the lots of one item and what each reservation claims of them, refining
   `Inventory`: the lots of a location add up to its level.
2. Deliveries of a prepaid plan and the versions a swap writes, in `Renewal`.
3. `create_payout` and its settlement; webhooks, once what is recorded can be applied.

Not modelled, with the reason: identity, shoppers, files and http (one transaction
each, no state two steps share), providers (I/O, modelled from outside by what
`call` and `resume` may answer), tax and pricing (computation over rows), catalogue,
store and customer (row edits under constraints of the schema), ports, ids, pages
and errors (types), `src/api/` and the client (parsing and presentation; more than
half of the repository's lines, most of them generated).

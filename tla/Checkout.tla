------------------------------ MODULE Checkout ------------------------------
(***************************************************************************)
(* Checkouts that share a promotion, its campaign's budget, a gift card    *)
(* and a customer's balance (src/checkout.rs over src/promotion.rs,        *)
(* src/credit.rs and src/order.rs): what each step takes, and what its     *)
(* compensation, a cancellation or a refund gives back.                    *)
(*                                                                         *)
(* A step is one transaction, and one action, except that RedeemCredit     *)
(* reads a balance in one statement and takes of it in another.  What      *)
(* AuthorizePayment does is Payment, what ReserveStock does is Inventory.  *)
(***************************************************************************)
EXTENDS Integers, FiniteSets, Functions

CONSTANTS
    Carts,         \* carts being checked out, one of each one's customer
    Customers,
    Guest,         \* who a cart of no customer belongs to
    Owner,         \* whose cart it is
    Gives,         \* what a cart's adjustments by the promotion may come to
    UsageLimit,    \* promotion.usage_limit
    CustomerLimit, \* promotion.customer_usage_limit
    Kind,          \* campaign_budget.type
    BudgetLimit,   \* campaign_budget.limit
    Instruments,   \* the balances that may be spent: gift cards and accounts
    Account,       \* the account of a customer
    PaysWith,      \* the instrument a cart says it uses, NoInstrument for none
    NoInstrument,
    Wanted,        \* how much of it
    Due,           \* what an order costs
    Opening,       \* what each instrument was issued with
    MaxReplays     \* how often a compensation runs once more

Kinds == {"usage", "spend", "use_by_attribute", "spend_by_attribute"}

ASSUME CheckoutAssumption ==
    /\ IsFiniteSet(Carts)
    /\ Guest \notin Customers
    /\ Owner \in [Carts -> Customers \cup {Guest}]
    /\ Gives \subseteq Nat
    /\ UsageLimit \in Nat \ {0} /\ CustomerLimit \in Nat \ {0} /\ BudgetLimit \in Nat
    /\ Kind \in Kinds
    /\ NoInstrument \notin Instruments
    /\ Account \in [Customers -> Instruments]
    /\ PaysWith \in [Carts -> Instruments \cup {NoInstrument}]
    /\ Wanted \in Nat \ {0} /\ Due \in Nat \ {0}
    /\ Opening \in [Instruments -> Nat]
    /\ MaxReplays \in Nat

VARIABLES
    stage,    \* the last step of each checkout that took effect
    going,    \* whether it goes on, is being undone, or is over
    gives,    \* what the promotion takes off the cart
    claimed,  \* what ClaimPromotions kept for its compensation
    used,     \* promotion.used
    mine,     \* promotion_usage.used, by customer
    budget,   \* used of campaign_budget, or of campaign_budget_usage
    order,    \* order.status, "none" where there is no row
    gave,     \* what the promotion took off the order
    back,     \* history: how many uses were given back for a cart,
    backed,   \* and what was given back to the budget for it
    touched,  \* history: carts that something else happened to as well
    seen,     \* what RedeemCredit means to take, 0 before it has read
    spent,    \* the "redeem" row of the order
    refunds,  \* the "refund" rows of the order, by instrument
    credited, \* what staff refunded to credit, 0 for not yet
    balance,  \* what is left of each instrument
    replays

pool   == <<used, mine, budget>>
orders == <<order, gave>>
given  == <<back, backed, touched>>
sale   == <<gives, claimed, pool, orders, given>>
credit == <<seen, spent, refunds, credited, balance, replays>>
vars   == <<stage, going, sale, credit>>

\* The steps of Checkout::workflow that this module is about.
Stages == {"open", "claimed", "ordered", "redeemed", "placed"}

ByAttribute == Kind \in {"use_by_attribute", "spend_by_attribute"}
Spends      == Kind \in {"spend", "spend_by_attribute"}
Everybody   == "everybody"

\* The counter of the budget that a cart's claim moves.
attribute(c) == IF ByAttribute THEN Owner[c] ELSE Everybody
Attributes   == {attribute(c) : c \in Carts}

\* The budget's own kind decides what is charged.
Charge(amount) == IF Spends THEN amount ELSE 1

Init ==
    /\ stage = [c \in Carts |-> "open"]
    /\ going = [c \in Carts |-> "on"]
    /\ gives \in [Carts -> Gives]
    /\ claimed = [c \in Carts |-> 0]
    /\ used = 0
    /\ mine = [k \in Customers |-> 0]
    /\ budget = [a \in Attributes |-> 0]
    /\ order = [c \in Carts |-> "none"]
    /\ gave = [c \in Carts |-> 0]
    /\ back = [c \in Carts |-> 0]
    /\ backed = [c \in Carts |-> 0]
    /\ touched = {}
    /\ seen = [c \in Carts |-> 0]
    /\ spent = [c \in Carts |-> 0]
    /\ refunds = [c \in Carts |-> [i \in Instruments |-> 0]]
    /\ credited = [c \in Carts |-> 0]
    /\ balance = Opening
    /\ replays = 0

\* A step of c's checkout has come as far as s, and goes on so.
Reach(c, s) == stage' = [stage EXCEPT ![c] = s]
Go(c, way)  == going' = [going EXCEPT ![c] = way]
On(c)   == going[c] = "on"
Back(c) == going[c] = "back"

-----------------------------------------------------------------------------
(* The promotion *)

\* The three conditional updates of promotion::take.
UsesEverLeft(c) == used <= UsageLimit
UsesLeft(c) == used < UsageLimit
CanTake(c) ==
    /\ UsesLeft(c)
    /\ Owner[c] # Guest => mine[Owner[c]] < CustomerLimit
    /\ ByAttribute => Owner[c] # Guest
    /\ budget[attribute(c)] + Charge(gives[c]) <= BudgetLimit

take(c) ==
    /\ used' = used + 1
    /\ mine' = IF Owner[c] = Guest THEN mine
               ELSE [mine EXCEPT ![Owner[c]] = @ + 1]
    /\ budget' = [budget EXCEPT ![attribute(c)] = @ + Charge(gives[c])]

AtLeast0(n) == IF n < 0 THEN 0 ELSE n

\* release, release_budget: clamped, and a guest has no counter of its own.
releaseUse(c, amount) ==
    /\ used' = AtLeast0(used - 1)
    /\ budget' = [budget EXCEPT ![attribute(c)] = AtLeast0(@ - Charge(amount))]
    /\ back' = [back EXCEPT ![c] = @ + 1]
    /\ backed' = [backed EXCEPT ![c] = @ + Charge(amount)]
    /\ UNCHANGED mine
release(c, amount) ==
    /\ used' = AtLeast0(used - 1)
    /\ mine' = IF Owner[c] = Guest THEN mine
               ELSE [mine EXCEPT ![Owner[c]] = AtLeast0(@ - 1)]
    /\ budget' = [budget EXCEPT ![attribute(c)] = AtLeast0(@ - Charge(amount))]
    /\ back' = [back EXCEPT ![c] = @ + 1]
    /\ backed' = [backed EXCEPT ![c] = @ + Charge(amount)]

\* Every amount the cart's adjustments come to is claimed.
ClaimPromotions(c) ==
    /\ stage[c] = "open" /\ On(c)
    /\ Reach(c, "claimed")
    /\ claimed' = [claimed EXCEPT ![c] = gives[c]]
    /\ IF gives[c] = 0 THEN UNCHANGED pool ELSE CanTake(c) /\ take(c)
    /\ UNCHANGED <<going, gives, orders, given, credit>>

ClaimRefused(c) ==
    /\ stage[c] = "open" /\ On(c)
    /\ gives[c] # 0 /\ ~CanTake(c)
    /\ Go(c, "over")
    /\ UNCHANGED <<stage, sale, credit>>

\* compensate, with the amounts the step kept.
ReleaseClaim(c) ==
    /\ stage[c] = "claimed" /\ Back(c)
    /\ IF claimed[c] = 0 THEN UNCHANGED <<pool, back, backed>>
       ELSE release(c, claimed[c])
    /\ \/ Reach(c, "open") /\ Go(c, "over") /\ UNCHANGED <<touched, replays>>
       \* A second pass of the engine compensates the step once more.
       \/ /\ replays < MaxReplays /\ replays' = replays + 1
          /\ touched' = touched \cup {c}
          /\ UNCHANGED <<stage, going>>
    /\ UNCHANGED <<gives, claimed, orders, seen, spent,
                   refunds, credited, balance>>

-----------------------------------------------------------------------------
(* The order *)

\* order::create copies the adjustments the cart has by now.
CreateOrder(c) ==
    /\ stage[c] = "claimed" /\ On(c)
    /\ Reach(c, "ordered")
    /\ order' = [order EXCEPT ![c] = "pending"]
    /\ gave' = [gave EXCEPT ![c] = gives[c]]
    /\ UNCHANGED <<going, gives, claimed, pool, given, credit>>

\* order::erase
EraseLeft(c) ==
    /\ stage[c] = "ordered" /\ Back(c)
    /\ Reach(c, "claimed")
    /\ UNCHANGED <<going, gives, claimed, pool, orders, given, credit>>
EraseOrder(c) ==
    /\ stage[c] = "ordered" /\ Back(c)
    /\ Reach(c, "claimed")
    /\ order' = [order EXCEPT ![c] = "none"]
    /\ gave' = [gave EXCEPT ![c] = 0]
    /\ UNCHANGED <<going, gives, claimed, pool, given, credit>>

\* What befalls the cart or the order while its checkout runs.
Touch(c) == touched' = IF going[c] = "over" THEN touched ELSE touched \cup {c}

\* order::cancel, with release_promotions: what the order's own adjustments
\* say it was given.  The order's checkout may still be running.
Cancel(c) ==
    /\ order[c] = "pending"
    /\ order' = [order EXCEPT ![c] = "canceled"]
    /\ IF gave[c] = 0 THEN UNCHANGED <<pool, back, backed>>
       ELSE release(c, gave[c])
    /\ Touch(c)
    /\ UNCHANGED <<stage, going, gives, claimed, gave, credit>>

\* promotion::apply after the shopper changed the cart: what the cart is
\* changed to once its order is made is never read.
Reprice(c) ==
    /\ order[c] = "none" /\ On(c)
    /\ \E g \in Gives \ {gives[c]} : gives' = [gives EXCEPT ![c] = g]
    /\ touched' = IF stage[c] = "open" THEN touched ELSE touched \cup {c}
    /\ UNCHANGED <<stage, going, claimed, pool, orders, back, backed, credit>>

-----------------------------------------------------------------------------
(* The credit *)

Least(S) == CHOOSE n \in S : \A m \in S : n <= m

\* The instrument is read, and how much of it this order can use.
RedeemRead(c) ==
    /\ stage[c] = "ordered" /\ On(c)
    /\ PaysWith[c] # NoInstrument
    /\ seen[c] = 0 /\ balance[PaysWith[c]] > 0
    /\ seen' = [seen EXCEPT ![c] = Least({Wanted, Due, balance[PaysWith[c]]})]
    /\ UNCHANGED <<stage, going, sale, spent,
                   refunds, credited, balance, replays>>

\* Nothing was put against the cart, or the account has nothing on it; a gift
\* card with nothing on it is refused.
RedeemSkipped(c) ==
    /\ stage[c] = "ordered" /\ On(c)
    /\ \/ PaysWith[c] = NoInstrument
       \/ /\ \E k \in Customers : Account[k] = PaysWith[c]
          /\ seen[c] = 0 /\ balance[PaysWith[c]] = 0
    /\ Reach(c, "redeemed")
    /\ UNCHANGED <<going, sale, credit>>

\* redeem_gift_card, redeem_store_credit: taken if it is still there.
EnoughAsSeen(c) == seen[c] > 0
Enough(c) == seen[c] > 0 /\ balance[PaysWith[c]] >= seen[c]
RedeemTake(c) ==
    /\ stage[c] = "ordered" /\ On(c)
    /\ Enough(c)
    /\ Reach(c, "redeemed")
    /\ spent' = [spent EXCEPT ![c] = seen[c]]
    /\ balance' = [balance EXCEPT ![PaysWith[c]] = @ - seen[c]]
    /\ seen' = [seen EXCEPT ![c] = 0]
    /\ UNCHANGED <<going, sale, refunds, credited, replays>>

\* Somebody spent it first: the run comes back and asks for what is left.
RedeemAgain(c) ==
    /\ stage[c] = "ordered" /\ On(c)
    /\ seen[c] > 0 /\ ~Enough(c)
    /\ seen' = [seen EXCEPT ![c] = 0]
    /\ UNCHANGED <<stage, going, sale, spent,
                   refunds, credited, balance, replays>>

\* restore_gift_card, restore_store_credit: a "refund" row of this order on
\* this instrument is the condition on the balance moving.
AlwaysRestorable(c) == TRUE
Restorable(c) == refunds[c][PaysWith[c]] = 0
RestoreCredit(c) ==
    /\ stage[c] = "redeemed" /\ Back(c)
    /\ IF spent[c] > 0 /\ Restorable(c)
       THEN /\ balance' = [balance EXCEPT ![PaysWith[c]] = @ + spent[c]]
            /\ refunds' = [refunds EXCEPT ![c][PaysWith[c]] = @ + spent[c]]
       ELSE UNCHANGED <<balance, refunds>>
    /\ \/ Reach(c, "ordered") /\ UNCHANGED replays
       \* A second pass of the engine compensates the step once more.
       \/ replays < MaxReplays /\ replays' = replays + 1 /\ UNCHANGED stage
    /\ UNCHANGED <<going, sale, seen, spent, credited>>

\* credit::refund_to_credit, once for an order (the ledger's unique index),
\* whether its checkout is over or not.
RefundToCredit(c) ==
    /\ order[c] # "none"
    /\ Owner[c] # Guest /\ credited[c] = 0
    /\ \E amount \in 1 .. Due :
         /\ credited' = [credited EXCEPT ![c] = amount]
         /\ refunds' = [refunds EXCEPT ![c][Account[Owner[c]]] = @ + amount]
         /\ balance' = [balance EXCEPT ![Account[Owner[c]]] = @ + amount]
    /\ Touch(c)
    /\ UNCHANGED <<stage, going, gives, claimed, pool, orders, back, backed,
                   seen, spent, replays>>

-----------------------------------------------------------------------------
(* The rest of the checkout *)

\* AuthorizePayment and CompleteCart; a step of the host's own may follow and
\* fail.
Complete(c) ==
    /\ stage[c] = "redeemed" /\ On(c)
    /\ Reach(c, "placed")
    /\ \E way \in {"over", "back"} : Go(c, way)
    /\ UNCHANGED <<sale, credit>>

\* A step refuses: a card with nothing on it, no stock, no money, a cart that
\* somebody else closed.
Refuse(c) ==
    /\ stage[c] \in {"claimed", "ordered", "redeemed"} /\ On(c)
    /\ Go(c, "back")
    /\ seen' = [seen EXCEPT ![c] = 0]
    /\ UNCHANGED <<stage, sale, spent, refunds, credited, balance, replays>>

\* CompleteCart and AuthorizePayment are undone.
UndoCompletely(c) ==
    /\ stage[c] = "placed" /\ Back(c)
    /\ Reach(c, "ordered")
    /\ UNCHANGED <<going, sale, credit>>
UndoComplete(c) ==
    /\ stage[c] = "placed" /\ Back(c)
    /\ Reach(c, "redeemed")
    /\ UNCHANGED <<going, sale, credit>>

Step(c) ==
    \/ ClaimPromotions(c)
    \/ ClaimRefused(c)
    \/ CreateOrder(c)
    \/ RedeemRead(c)
    \/ RedeemSkipped(c)
    \/ RedeemTake(c)
    \/ RedeemAgain(c)
    \/ Complete(c)
    \/ UndoComplete(c)
    \/ RestoreCredit(c)
    \/ EraseOrder(c)
    \/ ReleaseClaim(c)

Next == \E c \in Carts :
    \/ Step(c)
    \/ Refuse(c)
    \/ Cancel(c)
    \/ Reprice(c)
    \/ RefundToCredit(c)

Spec == Init /\ [][Next]_vars

-----------------------------------------------------------------------------
(* Properties *)

\* Types: no counter and no balance ever runs below nothing.
TypeOK ==
    /\ stage \in [Carts -> Stages]
    /\ going \in [Carts -> {"on", "back", "over"}]
    /\ gives \in [Carts -> Nat] /\ claimed \in [Carts -> Nat]
    /\ used \in Nat /\ mine \in [Customers -> Nat]
    /\ budget \in [Attributes -> Nat]
    /\ order \in [Carts -> {"none", "pending", "canceled"}]
    /\ gave \in [Carts -> Nat]
    /\ back \in [Carts -> Nat] /\ backed \in [Carts -> Nat]
    /\ touched \subseteq Carts
    /\ seen \in [Carts -> Nat]
    /\ spent \in [Carts -> Nat]
    /\ refunds \in [Carts -> [Instruments -> Nat]]
    /\ credited \in [Carts -> Nat]
    /\ balance \in [Instruments -> Nat]
    /\ replays \in 0 .. MaxReplays

\* What a cart took of the promotion and of its budget, and what it still has:
\* less than nothing if more was given back for it than it took.
took(c)    == IF claimed[c] = 0 THEN 0 ELSE 1
charged(c) == IF claimed[c] = 0 THEN 0 ELSE Charge(claimed[c])
Uses(c)    == took(c) - back[c]
Net(c)     == charged(c) - backed[c]

\* Whose use stands, and how many came back that nobody had taken.
Standing == {c \in Carts : Uses(c) = 1}
Strays   == SumFunctionOnSet([c \in Carts |-> AtLeast0(-Uses(c))], Carts)

\* A counter n of what the carts of S took and gave back: it never says more
\* than what they have, nor less than what they took less all that came back.
\* Where nobody gave back more than he took the two are the same.
Counts(n, taken, gone, S) ==
    /\ SumFunctionOnSet(taken, S) <= n + SumFunctionOnSet(gone, S)
    /\ n <= SumFunctionOnSet([c \in Carts |-> AtLeast0(taken[c] - gone[c])], S)

\* The promotion's counter and each customer's say what stands, whichever of a
\* compensation and a cancellation gave a use back, and fall short of it by no
\* more than what came back and was not taken (take, release).
UsesCounted ==
    LET taken == [c \in Carts |-> took(c)]
    IN  /\ Counts(used, taken, back, Carts)
        /\ \A k \in Customers : Counts(mine[k], taken, back, {c \in Carts : Owner[c] = k})

\* A cart left alone while its checkout runs, whose claim is compensated once,
\* has its use and what it was charged taken and given back whole, and only
\* once, by the compensation or a cancellation after it (release, erase,
\* release_promotions).
GivesBackOnce ==
    \A c \in Carts \ touched :
        \/ Uses(c) = 0 /\ Net(c) = 0
        \/ Uses(c) = 1 /\ Net(c) = charged(c)

\* The uses that stand are a pool of as many as the limit says, and one more for
\* each stray.
Promotion == INSTANCE Pool WITH
    Holders <- Carts, Limit <- UsageLimit,
    holding <- Standing, strays <- Strays
IsPool == Promotion!Spec

\* What "used <= usage_limit" is there for (migrations/0014_promotion.sql:76): no
\* more uses stand than the limit allows.
WithinLimit == Cardinality(Standing) <= UsageLimit

\* What staff refunded of c's order to i.
Refunded(c, i) ==
    IF Owner[c] # Guest /\ Account[Owner[c]] = i THEN credited[c] ELSE 0

Undone(c)    == going[c] = "over" /\ stage[c] = "open"
Pays(c)      == PaysWith[c] # NoInstrument
toAccount(c) == Refunded(c, PaysWith[c])
Kept(c)      == refunds[c][PaysWith[c]] = toAccount(c)
PutBack(c)   == refunds[c][PaysWith[c]] = spent[c] + toAccount(c)

\* A checkout that became no order leaves nothing behind: its order is gone, its
\* use is given back and its instrument has back what was taken, once, even if
\* its compensation ran twice; unless staff refunded the order to that very
\* balance while the checkout ran (compensate of each step).
UndoneWhole ==
    \A c \in Carts : Undone(c) =>
        /\ order[c] = "none" /\ Uses(c) <= 0
        /\ Pays(c) =>
              PutBack(c) \/ (c \in touched /\ toAccount(c) > 0 /\ Kept(c))

\* What a restoration is for (src/credit.rs:773, 1245): a redemption is put back
\* for a checkout that did not become an order, whatever else was done to it.
Restored == \A c \in Carts : Undone(c) /\ Pays(c) => PutBack(c)

\* The same of a budget and what it was charged.
BudgetCounted ==
    \A a \in Attributes :
        Counts(budget[a], [c \in Carts |-> charged(c)], backed,
               {c \in Carts : attribute(c) = a})

\* Money is neither made nor lost, at any moment: a budget is charged what was
\* claimed and not given back (charge_budget, release_budget); an instrument
\* holds what it was issued with, less the redemptions that were not put back,
\* and what staff refunded to it (redeem, restore, refund_to_credit); and what a
\* placed order took stays taken.
MoneyKept ==
    /\ BudgetCounted
    /\ \A i \in Instruments :
         balance[i] = Opening[i]
             - SumFunctionOnSet(spent, {c \in Carts : PaysWith[c] = i /\ Kept(c)})
             + SumFunctionOnSet(credited,
                   {c \in Carts : Owner[c] # Guest /\ Account[Owner[c]] = i})
    /\ \A c \in Carts :
         stage[c] = "placed" /\ going[c] = "over" /\ Pays(c) => Kept(c)
=============================================================================

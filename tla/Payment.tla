------------------------------ MODULE Payment ------------------------------
(***************************************************************************)
(* The money of one order: its payment collection and session, the payment *)
(* a checkout authorises, what the staff capture, refund and cancel, the   *)
(* order's ledger, what a capture grants and whom it earns                 *)
(* (src/payment.rs, src/settlement.rs, src/payout.rs, and the payment      *)
(* sides of src/order.rs, src/checkout.rs, src/credit.rs and               *)
(* src/digital.rs).                                                        *)
(*                                                                         *)
(* A checkout's step is one transaction per phase.  A capture or a refund  *)
(* is split where it holds the payment's row and has read its balance;     *)
(* cancelling an order where it has read the status, and where it holds    *)
(* the order's row and has read what is captured.  An order is held by     *)
(* whoever writes its ledger (migration 0035), so the two can wait on each *)
(* other, and the database then aborts one of them.                        *)
(***************************************************************************)
EXTENDS Integers, Sequences, Functions

CONSTANTS
    Workers,   \* transactions of the staff that run at once
    Amount,    \* payment_collection.amount, in the currency's smallest unit
    Credits,   \* what gift cards and store credit may have carried of it
    Holds,     \* amounts a provider may hold
    Extras,    \* instalment differences the shopper may carry
    Fees,      \* the commission the shop's rules take of the order's total
    Digital,   \* what the order's digital lines are worth
    Backs      \* what the staff may refund to the shopper's balance

ASSUME AmountsAssumption ==
    /\ Amount \in Nat \ {0}
    /\ Credits \subseteq 0 .. Amount
    /\ Holds \subseteq Nat \ {0}
    /\ Extras \subseteq Nat
    /\ Fees \subseteq 0 .. Amount
    /\ Digital \in Nat \ {0}
    /\ Backs \subseteq Nat \ {0}

VARIABLES
    run,        \* how far the checkout's authorize step is
    asked,      \* what its session was opened for
    answer,     \* what the provider answered
    session,    \* payment_session.status, "none" where there is no row
    payment,    \* the payment row; amount 0 where there is none
    taken,      \* the sum of its capture rows
    given,      \* the sum of its refund rows
    credit,     \* what gift cards and store credit carry, by their ledgers
    collection, \* the amounts and the status the collection stores
    order,      \* order.status
    ledger,     \* order_transaction, added up by reference; what was refunded
                \* to a balance apart from the refunds of the payment
    entitled,   \* the entitlement of the digital lines
    lines,      \* payout_line, capture by capture, oldest first
    tx          \* what each worker is in the middle of

money == <<session, payment, taken, given, credit, collection>>
books == <<ledger, entitled, lines>>
vars  == <<run, asked, answer, money, order, books, tx>>

Open     == {"pending", "requires_more"}
Statuses == {"pending", "requires_action", "completed", "canceled"}
Idle     == [op |-> "idle", amount |-> 0, from |-> "pending"]
Nothing  == [status |-> "none", opened |-> "none", held |-> 0, extra |-> 0]

-----------------------------------------------------------------------------
(* The collection's sums *)

Unclamped(n) == n
AtLeast0(n) == IF n < 0 THEN 0 ELSE n

\* What recompute's chain of conditions names the sums.
Named(paid, got, back, carried, ses) ==
    LET held    == (IF paid.canceled THEN 0 ELSE paid.amount) + carried
        charged == Amount + (IF paid.canceled THEN 0 ELSE paid.extra)
        all     == got + carried
    IN  CASE back > 0 /\ back >= all    -> "refunded"
          [] back > 0 /\ back < all     -> "partially_refunded"
          [] back = 0 /\ all >= charged -> "captured"
          [] back = 0 /\ all < charged /\ all > 0 -> "partially_captured"
          [] back = 0 /\ all = 0 /\ held >= charged -> "authorized"
          [] back = 0 /\ all = 0 /\ held < charged /\ held > 0 ->
                "partially_authorized"
          [] OTHER -> IF paid.canceled THEN "canceled"
                      ELSE IF ses # "none" THEN "awaiting" ELSE "not_paid"

\* recompute: `mismatch` is left alone, everything else is summed again.
Summed(was, paid, got, back, carried, ses) ==
    [authorized |-> IF paid.canceled THEN 0 ELSE paid.amount,
     captured   |-> got,
     refunded   |-> back,
     credit     |-> carried,
     charged    |-> Amount + (IF paid.canceled THEN 0 ELSE paid.extra),
     status     |-> IF was = "mismatch" THEN was
                    ELSE Named(paid, got, back, carried, ses)]

recompute ==
    collection' = Summed(collection.status, payment', taken', given', credit',
                         session')

Init ==
    /\ run = "prepare"
    /\ asked = 0
    /\ answer = Nothing
    /\ session = "none"
    /\ payment = [amount |-> 0, extra |-> 0, canceled |-> FALSE]
    /\ taken = 0
    /\ given = 0
    /\ credit \in Credits
    /\ collection = Summed("none", payment, taken, given, credit, session)
    /\ order = "pending"
    /\ ledger = [payment |-> 0, canceled |-> 0, capture |-> 0, refund |-> 0,
                 credit_line |-> credit, to_credit |-> 0]
    /\ entitled = "none"
    /\ lines = <<>>
    /\ tx = [w \in Workers |-> Idle]

-----------------------------------------------------------------------------
(* Rows held by a transaction in flight *)

PaymentUnlocked == TRUE
PaymentFree == \A w \in Workers : tx[w].op \notin {"capture", "refund"}
OrderUnlocked == TRUE
OrderFree   == \A w \in Workers : tx[w].op # "canceling"

Rest(w) == tx' = [tx EXCEPT ![w] = Idle]

-----------------------------------------------------------------------------
(* The checkout's AuthorizePayment *)

due == AtLeast0(collection.charged - collection.credit)

\* prepare: nobody's card is asked for nothing.
Prepare ==
    /\ run = "prepare"
    /\ asked' = due
    /\ run' = IF due = 0 THEN "skipped" ELSE "calling"
    /\ session' = IF due = 0 THEN session ELSE "pending"
    /\ UNCHANGED <<payment, taken, given, credit>>
    /\ IF due = 0 THEN UNCHANGED collection ELSE recompute
    /\ UNCHANGED <<answer, order, books, tx>>

\* call, or resume after a crash: a provider that could be looked up answers
\* without the session it opened.
Call ==
    /\ run = "calling"
    /\ \E opened \in {"none"} \cup Open,
          status \in {"authorized", "requires_more", "pending", "error"},
          held \in Holds, extra \in Extras :
            answer' = [status |-> status, opened |-> opened,
                       held |-> IF status = "authorized" THEN held ELSE 0,
                       extra |-> IF status = "authorized" THEN extra ELSE 0]
    /\ run' = "recording"
    /\ UNCHANGED <<asked, money, order, books, tx>>

\* record_session writes the status the provider opened the session with,
\* whatever the row says by now.
record_session ==
    IF answer.opened = "none" THEN session ELSE answer.opened

\* authorize, of a hold: the payment, its session, the sums, and a mismatch
\* where the amount is not the one agreed; then record_authorization.
RecordHold ==
    /\ run = "recording" /\ answer.status = "authorized"
    /\ record_session \in Open
    /\ OrderFree
    /\ payment' = [amount |-> answer.held, extra |-> answer.extra,
                   canceled |-> FALSE]
    /\ session' = "authorized"
    /\ UNCHANGED <<taken, given, credit>>
    /\ collection' =
         [Summed(collection.status, payment', taken, given, credit, session')
            EXCEPT !.status = IF answer.held # asked + answer.extra
                              THEN "mismatch" ELSE @]
    /\ ledger' = [ledger EXCEPT !.payment = answer.held]
    /\ run' = "held"
    /\ answer' = Nothing
    /\ UNCHANGED <<asked, order, entitled, lines, tx>>

\* can_transition
CanMove(from, to) ==
    \/ from = to
    \/ from = "pending" /\ to \in {"requires_action", "completed", "canceled"}
    \/ from = "requires_action" /\ to \in {"pending", "completed", "canceled"}
    \/ from = "completed" /\ to = "canceled"

\* authorize, of an answer that is not there yet: the run parks.
RecordWait ==
    /\ run = "recording" /\ answer.status \in Open
    /\ record_session \in Open
    /\ OrderFree
    /\ LET to == IF answer.status = "pending" THEN "pending"
                                              ELSE "requires_action"
       IN  CanMove(order, to) /\ order' = to
    /\ session' = answer.status
    /\ run' = "waiting"
    /\ answer' = Nothing
    /\ UNCHANGED <<asked, payment, taken, given, credit, collection,
                   books, tx>>

\* The step fails and its transaction goes back: the provider refused, the
\* session was closed meanwhile, or the order can no longer wait.
RecordFails ==
    /\ run = "recording"
    /\ \/ answer.status = "error"
       \/ record_session \notin Open
       \/ answer.status = "pending" /\ ~CanMove(order, "pending")
       \/ answer.status = "requires_more" /\ ~CanMove(order, "requires_action")
    /\ run' = "failed"
    /\ answer' = Nothing
    /\ UNCHANGED <<asked, money, order, books, tx>>

\* The rest of the checkout ends well, or a later step fails: a step that was
\* skipped has nothing of its own to undo.
Conclude ==
    /\ \/ run = "held" /\ run' \in {"done", "failed late"}
       \/ run = "skipped" /\ run' \in {"done", "undone"}
    /\ UNCHANGED <<asked, answer, money, order, books, tx>>

\* compensate, of a step that recorded no payment: close_session.
CompensateSession ==
    /\ run = "failed"
    /\ session' = IF session \in Open THEN "canceled" ELSE session
    /\ UNCHANGED <<payment, taken, given, credit>>
    /\ IF session \in Open THEN recompute ELSE UNCHANGED collection
    /\ run' = "undone"
    /\ UNCHANGED <<asked, answer, order, books, tx>>

\* compensate, of one that did: the hold is released and the row this step
\* wrote to the order's ledger goes with it.
CompensateHold ==
    /\ run = "failed late"
    /\ PaymentFree /\ OrderFree
    /\ taken = 0
    /\ payment' = [payment EXCEPT !.canceled = TRUE]
    /\ session' = "canceled"
    /\ UNCHANGED <<taken, given, credit>>
    /\ recompute
    /\ ledger' = [ledger EXCEPT !.payment = 0]
    /\ run' = "undone"
    /\ UNCHANGED <<asked, answer, order, entitled, lines, tx>>

\* Money was taken already: cancel refuses and the compensation fails.
CompensateRefused ==
    /\ run = "failed late"
    /\ PaymentFree
    /\ taken > 0
    /\ run' = "stuck"
    /\ UNCHANGED <<asked, answer, money, order, books, tx>>

\* RedeemCredit's compensation, next in the unwinding: the instruments get back
\* what they carried.  The "credit_line" rows of the ledger stay.
RestoreCredit ==
    /\ run = "undone"
    /\ credit' = 0
    /\ UNCHANGED <<session, payment, taken, given>>
    /\ recompute
    /\ run' = "unwound"
    /\ UNCHANGED <<asked, answer, order, books, tx>>

-----------------------------------------------------------------------------
(* settlement::capture and settlement::refund *)

\* capture_only up to its check: the row is locked, then the balance read.
CaptureBegin(w) ==
    /\ tx[w].op = "idle"
    /\ PaymentFree
    /\ payment.amount > 0 /\ ~payment.canceled
    /\ \E a \in 1 .. payment.amount - taken :
         tx' = [tx EXCEPT ![w] = [op |-> "capture", amount |-> a,
                                  from |-> "pending"]]
    /\ UNCHANGED <<run, asked, answer, money, order, books>>

\* n/d to the nearest whole, halves to the even one (round_dp).
Rounded(n, d) ==
    LET down == n \div d
        twice == 2 * (n % d)
    IN  IF twice > d \/ (twice = d /\ down % 2 = 1) THEN down + 1 ELSE down

\* split: the drift of the rounding lands on the commission, which is the
\* first of the two shares allocate is asked for.
Earned(a, fee) ==
    LET seller == Rounded(a * (Amount - fee), Amount)
    IN  [seller |-> seller, commission |-> a - seller,
         sellerBack |-> 0, commissionBack |-> 0]

\* What grant finds the shop to hold: what was captured and what instruments
\* carried, less what was given back; a hold is not a payment.
holding(book) == book.capture + book.credit_line - book.refund - book.to_credit

\* digital::grant: a row that is there, revoked or not, is left as it is.
grantOnAHold(was, book) ==
    IF was = "none" /\ holding(book) + book.payment >= Digital
    THEN "granted" ELSE was
grant(was, book) ==
    IF was = "none" /\ holding(book) >= Digital THEN "granted" ELSE was

\* The rest of settlement::capture: the row, the sums, the order's ledger,
\* what the money grants and who earns it, at the fee of the day.
CaptureEnd(w) ==
    /\ tx[w].op = "capture"
    /\ OrderFree
    /\ taken' = taken + tx[w].amount
    /\ UNCHANGED <<session, payment, given, credit>>
    /\ recompute
    /\ ledger' = [ledger EXCEPT !.capture = @ + tx[w].amount]
    /\ entitled' = grant(entitled, ledger')
    /\ \E fee \in Fees : lines' = Append(lines, Earned(tx[w].amount, fee))
    /\ Rest(w)
    /\ UNCHANGED <<run, asked, answer, order>>

\* refund_only up to its check, with the payment row locked.
RefundBegin(w) ==
    /\ tx[w].op = "idle"
    /\ PaymentFree
    /\ \E a \in 1 .. taken - given :
         tx' = [tx EXCEPT ![w] = [op |-> "refund", amount |-> a,
                                  from |-> "pending"]]
    /\ UNCHANGED <<run, asked, answer, money, order, books>>

earned(line) == line.seller + line.commission
undone(line) == line.sellerBack + line.commissionBack
openAnew(line) == earned(line)
open(line)   == earned(line) - undone(line)

\* What the captures before the k-th can still take of a refund.
OpenBefore(k) == SumFunctionOnSet([i \in DOMAIN lines |-> open(lines[i])], 1 .. k - 1)

\* record_reversal: oldest capture first, each up to what it has left, at the
\* rate that capture earned at.
Reversed(amount) ==
    [k \in DOMAIN lines |->
        LET left == AtLeast0(amount - OpenBefore(k))
            take == IF left < open(lines[k]) THEN left ELSE open(lines[k])
            seller == Rounded(take * lines[k].seller, earned(lines[k]))
        IN  [lines[k] EXCEPT !.sellerBack = @ + seller,
                             !.commissionBack = @ + take - seller]]

\* The rest of settlement::refund: what capturing granted is revoked, however
\* small the refund, and both shares are unwound.
RefundEnd(w) ==
    /\ tx[w].op = "refund"
    /\ OrderFree
    /\ given' = given + tx[w].amount
    /\ UNCHANGED <<session, payment, taken, credit>>
    /\ recompute
    /\ ledger' = [ledger EXCEPT !.refund = @ + tx[w].amount]
    /\ entitled' = IF entitled = "granted" THEN "revoked" ELSE entitled
    /\ lines' = Reversed(tx[w].amount)
    /\ Rest(w)
    /\ UNCHANGED <<run, asked, answer, order>>

\* refund_to_credit: a "refund" row keyed on the order, so only ever one; no
\* row of the payment changes and nothing is revoked.
RefundToCredit ==
    /\ OrderFree
    /\ ledger.to_credit = 0
    /\ \E a \in Backs : ledger' = [ledger EXCEPT !.to_credit = a]
    /\ UNCHANGED <<run, asked, answer, money, order, entitled, lines, tx>>

-----------------------------------------------------------------------------
(* order::cancel, and the order's other moves *)

\* The status is read before anything is held.
CancelRead(w) ==
    /\ tx[w].op = "idle"
    /\ order # "canceled" /\ CanMove(order, "canceled")
    /\ tx' = [tx EXCEPT ![w] = [op |-> "cancel", amount |-> 0, from |-> order]]
    /\ UNCHANGED <<run, asked, answer, money, order, books>>

\* hold_order, and release_payments up to its refusal.
CancelHold(w) ==
    /\ tx[w].op = "cancel"
    /\ OrderFree
    /\ IF taken - given > 0
       THEN Rest(w)
       ELSE tx' = [tx EXCEPT ![w].op = "canceling"]
    /\ UNCHANGED <<run, asked, answer, money, order, books>>

\* A payment that a cancelled order must release.
Releasable == payment.amount > 0 /\ ~payment.canceled /\ taken = 0

\* The "payment_canceled" rows of the ledger: what the "payment" row said.
CanceledUnlogged == ledger.canceled
Canceled == IF Releasable THEN ledger.payment ELSE ledger.canceled

\* The rest of unwind: open sessions are closed, holds nothing was taken of
\* are released, and the order moves, if it is still where it was read.
CancelEnd(w) ==
    /\ tx[w].op = "canceling"
    /\ Releasable => PaymentFree
    /\ order = tx[w].from
    /\ order' = "canceled"
    /\ session' = IF session \in Open \/ Releasable THEN "canceled" ELSE session
    /\ payment' = [payment EXCEPT !.canceled = @ \/ Releasable]
    /\ ledger' = [ledger EXCEPT !.canceled = Canceled]
    /\ UNCHANGED <<taken, given, credit>>
    /\ IF session \in Open \/ Releasable THEN recompute ELSE UNCHANGED collection
    /\ Rest(w)
    /\ UNCHANGED <<run, asked, answer, entitled, lines>>

\* move_status finds the order elsewhere: everything goes back.
CancelMoved(w) ==
    /\ tx[w].op = "canceling"
    /\ order # tx[w].from
    /\ Rest(w)
    /\ UNCHANGED <<run, asked, answer, money, order, books>>

\* A cancellation waits for the payment, whose holder waits for the order:
\* the database aborts either.
Deadlocked(w) ==
    \/ tx[w].op = "canceling" /\ Releasable /\ ~PaymentFree
    \/ tx[w].op \in {"capture", "refund"} /\ ~OrderFree /\ Releasable

Abort(w) ==
    /\ Deadlocked(w)
    /\ Rest(w)
    /\ UNCHANGED <<run, asked, answer, money, order, books>>

\* order::set_status, to completed.
Complete ==
    /\ OrderFree
    /\ order \in {"pending", "requires_action"}
    /\ order' = "completed"
    /\ UNCHANGED <<run, asked, answer, money, books, tx>>

-----------------------------------------------------------------------------
Ends(w) ==
    \/ CaptureEnd(w)
    \/ RefundEnd(w)
    \/ CancelHold(w)
    \/ CancelEnd(w)
    \/ CancelMoved(w)
    \/ Abort(w)

Checkout ==
    \/ Prepare
    \/ Call
    \/ RecordHold
    \/ RecordWait
    \/ RecordFails
    \/ Conclude
    \/ CompensateSession
    \/ CompensateHold
    \/ CompensateRefused
    \/ RestoreCredit

Next ==
    \/ Checkout
    \/ Complete
    \/ RefundToCredit
    \/ \E w \in Workers :
         \/ CaptureBegin(w)
         \/ RefundBegin(w)
         \/ CancelRead(w)
         \/ Ends(w)

Spec == Init /\ [][Next]_vars

-----------------------------------------------------------------------------
(* Properties *)

Answers == [status : {"none", "authorized", "requires_more", "pending", "error"},
            opened : {"none"} \cup Open, held : Nat, extra : Nat]
Payments == [amount : Nat, extra : Nat, canceled : BOOLEAN]
Ledgers  == [payment : Nat, canceled : Nat, capture : Nat, refund : Nat,
             credit_line : Nat, to_credit : Nat]
Transactions == [op : {"idle", "capture", "refund", "cancel", "canceling"},
                 amount : Nat, from : Statuses]

PayoutLines == [seller : Nat, commission : Nat, sellerBack : Nat, commissionBack : Nat]

\* The types of everything but the payout lines.
Shape ==
    /\ run \in {"prepare", "skipped", "calling", "recording", "held", "waiting",
               "done", "failed", "failed late", "undone", "unwound", "stuck"}
    /\ asked \in Nat
    /\ answer \in Answers
    /\ session \in {"none", "pending", "requires_more", "authorized", "canceled"}
    /\ payment \in Payments
    /\ taken \in Nat /\ given \in Nat /\ credit \in Nat
    /\ order \in Statuses
    /\ ledger \in Ledgers
    /\ entitled \in {"none", "granted", "revoked"}
    /\ tx \in [Workers -> Transactions]

\* Types: a payout line never earns nor gives back less than nothing.
TypeOK ==
    /\ Shape
    /\ lines \in Seq(PayoutLines)

\* Never more is given back than was taken, never more taken than is held, and
\* nothing is ever taken of a hold that was released, however captures,
\* refunds, a compensation and a cancellation of the order meet
\* (capture_only, refund_only and cancel, under the lock of the payment row).
Covered ==
    /\ given <= taken
    /\ taken <= payment.amount
    /\ payment.canceled => taken = 0

\* The three places that say what was paid agree between transactions: what
\* the collection stores is what its rows add up to, and the order's ledger
\* holds every capture and refund of the payment, and until a checkout is
\* undone its hold and what instruments carried.
BooksAgree ==
    /\ collection = Summed(collection.status, payment, taken, given, credit,
                           session)
    /\ ledger.capture = taken
    /\ ledger.refund = given
    /\ run \notin {"undone", "unwound"} =>
         ledger.payment - ledger.canceled =
            IF payment.canceled THEN 0 ELSE payment.amount
    /\ run # "unwound" => ledger.credit_line = credit

\* Whatever is refunded, and in whatever pieces, is taken off the captures it
\* came from: no capture gives back more than it earned, and what is left is
\* what the shop still holds (record_earning, record_reversal).
SharesAddUp ==
    /\ \A k \in DOMAIN lines : undone(lines[k]) <= earned(lines[k])
    /\ SumFunction([k \in DOMAIN lines |-> earned(lines[k]) - undone(lines[k])])
          = ledger.capture - ledger.refund

\* A digital line is open to its buyer only while the payment's captures, less
\* its refunds, and what instruments still carry cover its price: no order of
\* partial captures, refunds, a cancellation and the undoing of the checkout
\* leaves it open for less (digital::grant sums the ledger, which keeps a
\* "credit_line" row whose credit was restored; revoke at a refund).
GrantedIsPaid == entitled = "granted" => taken - given + credit >= Digital

\* Giving money back takes back what it paid for, so that what is open is still
\* paid for by the order's own ledger: "Takes back what an order's money paid
\* for, in the transaction that gives the money back" (digital::revoke).
GrantedIsHeld == entitled = "granted" => holding(ledger) >= Digital

\* In the step that cancels an order no money is kept, no session is left
\* open, and no hold is left that nothing was taken of, whoever was capturing
\* meanwhile (unwind under hold_order).
CancelReturns ==
    [][order # "canceled" /\ order' = "canceled" =>
         /\ taken' = given'
         /\ session' \notin Open
         /\ payment'.amount > 0 => payment'.canceled \/ taken' > 0]_vars

\* A session that was closed gets no payment: "An answer for a session that is
\* no longer open has nothing left to attach to" (authorize).
ClosedStaysClosed == [][session = "canceled" => payment' = payment]_vars
=============================================================================

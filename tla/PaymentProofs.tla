--------------------------- MODULE PaymentProofs ---------------------------
(***************************************************************************)
(* Proofs about Payment, for every number of workers and every amount:     *)
(* money stays covered, the three sets of books agree, a granted line is   *)
(* paid for, cancelling an order leaves nothing with the shop, and what    *)
(* captures earned and refunds took back comes to what the shop holds.     *)
(*                                                                         *)
(* The invariant adds what the locks give: who holds the payment's row     *)
(* knows its balance, and who holds the order's row keeps its ledger       *)
(* still.  That the payout lines add up is an induction over them: a       *)
(* refund takes of the first so many of them all it can, or all of it.     *)
(***************************************************************************)
EXTENDS Payment, SumsProofs, TLAPS

\* Before its hold is recorded a checkout has a session and nothing else, once
\* it is undone it has no hold, and nothing is granted before a capture.
Unpaid ==
    /\ run \in {"prepare", "skipped", "calling", "recording", "failed"} =>
         /\ payment.amount = 0 /\ ~payment.canceled
         /\ ledger.payment = 0 /\ ledger.canceled = 0
    /\ run \in {"calling", "recording"} => session # "none"
    /\ run \in {"undone", "unwound"} => payment.amount = 0 \/ payment.canceled
    /\ taken = 0 => entitled = "none"

\* What a worker in the middle of a transaction has read is still so.
Locked ==
    /\ \A w \in Workers :
         /\ tx[w].op = "capture" =>
              /\ tx[w].amount > 0
              /\ ~payment.canceled
              /\ taken + tx[w].amount <= payment.amount
         /\ tx[w].op = "refund" =>
              /\ tx[w].amount > 0
              /\ given + tx[w].amount <= taken
         /\ tx[w].op = "canceling" => taken <= given
    /\ \A v, w \in Workers : v # w =>
         /\ tx[v].op \in {"capture", "refund"} =>
              tx[w].op \notin {"capture", "refund"}
         /\ tx[v].op = "canceling" => tx[w].op # "canceling"

IndInv ==
    /\ Shape
    /\ Covered
    /\ BooksAgree
    /\ GrantedIsPaid
    /\ Unpaid
    /\ Locked

-----------------------------------------------------------------------------
\* Adding the rows up a second time changes nothing: a mismatch stays one,
\* and any other status is a function of the rows.
LEMMA SummedAgain ==
    ASSUME NEW was, NEW paid, NEW got, NEW back, NEW carried, NEW ses
    PROVE  Summed(was, paid, got, back, carried, ses) =
             Summed(Summed(was, paid, got, back, carried, ses).status,
                    paid, got, back, carried, ses)
BY DEF Summed

\* The same for a status a mismatch was written over.
LEMMA SummedMismatch ==
    ASSUME NEW was, NEW paid, NEW got, NEW back, NEW carried, NEW ses
    PROVE  [Summed(was, paid, got, back, carried, ses)
              EXCEPT !.status = "mismatch"] =
             Summed("mismatch", paid, got, back, carried, ses)
BY DEF Summed

\* A collection that was just summed says what its rows say.
LEMMA Recomputed ==
    ASSUME recompute
    PROVE  collection' = Summed(collection'.status, payment', taken', given',
                                credit', session')
<1>1. collection' = Summed(collection.status, payment', taken', given', credit',
                           session')
  BY DEF recompute
<1> QED
  BY <1>1, SummedAgain

-----------------------------------------------------------------------------
LEMMA InitInvariant == Init => IndInv
<1> SUFFICES ASSUME Init PROVE IndInv
  OBVIOUS
<1> USE AmountsAssumption
<1>1. Shape
  BY DEF Init, Shape, Nothing, Idle, Statuses, Open,
     Answers, Payments, Ledgers, Transactions
<1>2. Covered
  BY DEF Init, Covered
<1>3. collection = Summed(collection.status, payment, taken, given, credit,
                          session)
  BY SummedAgain DEF Init
<1>4. BooksAgree
  BY <1>3 DEF Init, BooksAgree
<1>5. GrantedIsPaid
  BY DEF Init, GrantedIsPaid
<1>6. Unpaid
  BY DEF Init, Unpaid
<1>7. Locked
  BY DEF Init, Locked, Idle
<1> QED
  BY <1>1, <1>2, <1>4, <1>5, <1>6, <1>7 DEF IndInv

-----------------------------------------------------------------------------
(* The checkout *)

LEMMA PrepareKeeps == IndInv /\ Prepare => IndInv'
<1> SUFFICES ASSUME IndInv, Prepare PROVE IndInv'
  OBVIOUS
<1> USE AmountsAssumption
<1>0. /\ Shape /\ Covered /\ BooksAgree /\ GrantedIsPaid /\ Unpaid /\ Locked
      /\ UNCHANGED <<payment, taken, given, credit, order, ledger, entitled, tx,
                     answer>>
  BY DEF IndInv, Prepare, books
<1>1. asked' \in Nat
  <2>1. collection.charged \in Nat /\ collection.credit \in Nat
    <3>1. collection = Summed(collection.status, payment, taken, given, credit,
                              session)
      BY <1>0 DEF BooksAgree
    <3>2. /\ collection.charged
               = Amount + (IF payment.canceled THEN 0 ELSE payment.extra)
          /\ collection.credit = credit
      BY <3>1 DEF Summed
    <3>3. payment.extra \in Nat /\ credit \in Nat
      BY <1>0 DEF Shape,
         Answers, Payments, Ledgers, Transactions
    <3> QED
      BY <3>2, <3>3
  <2> QED
    BY <2>1 DEF Prepare, due, AtLeast0
<1>2. Shape'
  BY <1>0, <1>1 DEF Shape, Prepare
<1>3. collection' = Summed(collection'.status, payment', taken', given', credit',
                           session')
  <2>1. CASE due = 0
    BY <2>1, <1>0 DEF Prepare, BooksAgree
  <2>2. CASE due # 0
    BY <2>2, Recomputed DEF Prepare
  <2> QED
    BY <2>1, <2>2
<1>4. BooksAgree'
  BY <1>0, <1>3 DEF BooksAgree, Prepare
<1>5. Covered' /\ GrantedIsPaid' /\ Locked'
  BY <1>0 DEF Covered, GrantedIsPaid, Locked
<1>6. Unpaid'
  BY <1>0 DEF Unpaid, Prepare
<1> QED
  BY <1>2, <1>4, <1>5, <1>6 DEF IndInv

LEMMA CallKeeps == IndInv /\ Call => IndInv'
<1> SUFFICES ASSUME IndInv, Call PROVE IndInv'
  OBVIOUS
<1>0. /\ Shape /\ Covered /\ BooksAgree /\ GrantedIsPaid /\ Unpaid /\ Locked
      /\ UNCHANGED <<asked, session, payment, taken, given, credit, collection,
                     order, ledger, entitled, tx>>
      /\ run = "calling" /\ run' = "recording"
  BY DEF IndInv, Call, books, money
<1>1. answer' \in Answers
  BY AmountsAssumption DEF Call,
     Answers, Payments, Ledgers, Transactions
<1>2. Shape'
  BY <1>0, <1>1 DEF Shape
<1>3. Covered' /\ GrantedIsPaid' /\ Locked' /\ BooksAgree' /\ Unpaid'
  BY <1>0 DEF Covered, GrantedIsPaid, Locked, BooksAgree, Unpaid
<1> QED
  BY <1>2, <1>3 DEF IndInv

LEMMA RecordHoldKeeps == IndInv /\ RecordHold => IndInv'
<1> SUFFICES ASSUME IndInv, RecordHold PROVE IndInv'
  OBVIOUS
<1>0. /\ Shape /\ Covered /\ BooksAgree /\ GrantedIsPaid /\ Unpaid /\ Locked
      /\ UNCHANGED <<asked, taken, given, credit, order, entitled, tx>>
      /\ run = "recording" /\ run' = "held" /\ answer' = Nothing
      /\ session' = "authorized"
      /\ payment' = [amount |-> answer.held, extra |-> answer.extra,
                     canceled |-> FALSE]
      /\ ledger' = [ledger EXCEPT !.payment = answer.held]
  BY DEF IndInv, RecordHold
<1>1. payment.amount = 0 /\ ledger.canceled = 0 /\ taken = 0 /\ given = 0
  BY <1>0 DEF Unpaid, Covered, Shape
<1>2. /\ payment' \in Payments
      /\ ledger' \in Ledgers
      /\ ledger'.credit_line = ledger.credit_line
  BY <1>0 DEF Shape,
     Answers, Payments, Ledgers, Transactions
<1>3. Shape'
  BY <1>0, <1>2 DEF Shape, Nothing, Open,
     Answers, Payments, Ledgers, Transactions
<1>4. collection' = Summed(collection'.status, payment', taken', given', credit',
                           session')
  <2> DEFINE sum == Summed(collection.status, payment', taken', given', credit',
                           session')
  <2>1. collection' = [sum EXCEPT !.status =
                         IF answer.held # asked + answer.extra
                         THEN "mismatch" ELSE @]
    BY <1>0 DEF RecordHold
  <2>2. CASE answer.held # asked + answer.extra
    <3>1. collection' = [sum EXCEPT !.status = "mismatch"]
      BY <2>1, <2>2
    <3>2. collection' = Summed("mismatch", payment', taken', given', credit',
                               session')
      BY <3>1, SummedMismatch
    <3>3. collection'.status = "mismatch"
      BY <3>2 DEF Summed
    <3> QED
      BY <3>2, <3>3
  <2>3. CASE answer.held = asked + answer.extra
    <3>1. collection' = sum
      BY <2>1, <2>3 DEF Summed
    <3> QED
      BY <3>1, SummedAgain
  <2> QED
    BY <2>2, <2>3
<1>5. BooksAgree'
  BY <1>0, <1>1, <1>2, <1>4 DEF BooksAgree, Shape,
     Answers, Payments, Ledgers, Transactions
<1>6. Covered'
  BY <1>0, <1>1, <1>2 DEF Covered,
     Answers, Payments, Ledgers, Transactions
<1>7. GrantedIsPaid'
  BY <1>0 DEF GrantedIsPaid, Shape
<1>8. Unpaid'
  BY <1>0 DEF Unpaid
<1>9. Locked'
  <2>1. \A w \in Workers : tx[w].op \notin {"capture", "refund"}
    BY <1>0, <1>1 DEF Locked, Shape,
       Answers, Payments, Ledgers, Transactions
  <2> QED
    BY <1>0, <2>1 DEF Locked
<1> QED
  BY <1>3, <1>5, <1>6, <1>7, <1>8, <1>9 DEF IndInv

LEMMA RecordWaitKeeps == IndInv /\ RecordWait => IndInv'
<1> SUFFICES ASSUME IndInv, RecordWait PROVE IndInv'
  OBVIOUS
<1>0. /\ Shape /\ Covered /\ BooksAgree /\ GrantedIsPaid /\ Unpaid /\ Locked
      /\ UNCHANGED <<asked, payment, taken, given, credit, collection, entitled,
                     ledger, tx>>
      /\ run = "recording" /\ run' = "waiting" /\ answer' = Nothing
      /\ session' = answer.status /\ answer.status \in Open
      /\ order' \in Statuses
  BY DEF IndInv, RecordWait, books, Statuses
<1>1. session # "none" /\ session' # "none"
  BY <1>0 DEF Unpaid, Open
<1>2. Shape'
  BY <1>0 DEF Shape, Nothing, Open,
     Answers, Payments, Ledgers, Transactions
<1>3. Named(payment, taken, given, credit, session)
        = Named(payment, taken, given, credit, session')
  BY <1>1, Zenon DEF Named
<1>4. BooksAgree'
  BY <1>0, <1>3 DEF BooksAgree, Summed
<1>5. Covered' /\ GrantedIsPaid' /\ Locked' /\ Unpaid'
  BY <1>0 DEF Covered, GrantedIsPaid, Locked, Unpaid
<1> QED
  BY <1>2, <1>4, <1>5 DEF IndInv

\* The steps that only move the checkout along.
LEMMA OnlyRunKeeps ==
    ASSUME IndInv, RecordFails \/ Conclude \/ CompensateRefused
    PROVE  IndInv'
<1>0. /\ Shape /\ Covered /\ BooksAgree /\ GrantedIsPaid /\ Unpaid /\ Locked
      /\ UNCHANGED <<asked, money, order, books, tx>>
      /\ answer' \in {answer, Nothing}
      /\ run' \in {"failed", "done", "failed late", "undone", "stuck"}
      /\ run' # "undone" => run \notin {"undone", "unwound"}
      /\ run' = "undone" => run = "skipped"
      /\ run' = "failed" => run = "recording"
  BY DEF IndInv, RecordFails, Conclude, CompensateRefused
<1>1. Shape'
  <2>1. Nothing \in Answers
    BY DEF Nothing,
       Answers, Payments, Ledgers, Transactions
  <2>2. answer' \in Answers
    BY <1>0, <2>1 DEF Shape
  <2>3. UNCHANGED <<session, payment, taken, given, credit, ledger, entitled>>
    BY <1>0 DEF money, books
  <2> QED
    BY <1>0, <2>2, <2>3 DEF Shape
<1>2. Covered' /\ GrantedIsPaid' /\ Locked' /\ BooksAgree'
  BY <1>0 DEF Covered, GrantedIsPaid, Locked, BooksAgree, money, books
<1>3. Unpaid'
  BY <1>0 DEF Unpaid, money, books
<1> QED
  BY <1>1, <1>2, <1>3 DEF IndInv

LEMMA CompensateSessionKeeps == IndInv /\ CompensateSession => IndInv'
<1> SUFFICES ASSUME IndInv, CompensateSession PROVE IndInv'
  OBVIOUS
<1>0. /\ Shape /\ Covered /\ BooksAgree /\ GrantedIsPaid /\ Unpaid /\ Locked
      /\ UNCHANGED <<asked, answer, payment, taken, given, credit, order,
                     entitled, ledger, tx>>
      /\ run = "failed" /\ run' = "undone"
      /\ session' \in {session, "canceled"}
  BY DEF IndInv, CompensateSession, books
<1>1. Shape'
  BY <1>0 DEF Shape
<1>2. collection' = Summed(collection'.status, payment', taken', given', credit',
                           session')
  <2>1. CASE session \in Open
    BY <2>1, Recomputed DEF CompensateSession
  <2>2. CASE session \notin Open
    BY <2>2, <1>0 DEF CompensateSession, BooksAgree
  <2> QED
    BY <2>1, <2>2
<1>3. BooksAgree'
  BY <1>0, <1>2 DEF BooksAgree
<1>4. Covered' /\ GrantedIsPaid' /\ Locked' /\ Unpaid'
  BY <1>0 DEF Covered, GrantedIsPaid, Locked, Unpaid
<1> QED
  BY <1>1, <1>3, <1>4 DEF IndInv

LEMMA CompensateHoldKeeps == IndInv /\ CompensateHold => IndInv'
<1> SUFFICES ASSUME IndInv, CompensateHold PROVE IndInv'
  OBVIOUS
<1>0. /\ Shape /\ Covered /\ BooksAgree /\ GrantedIsPaid /\ Unpaid /\ Locked
      /\ UNCHANGED <<asked, answer, taken, given, credit, order, entitled, tx>>
      /\ run' = "undone"
      /\ session' = "canceled" /\ taken = 0
      /\ payment' = [payment EXCEPT !.canceled = TRUE]
      /\ ledger' = [ledger EXCEPT !.payment = 0]
      /\ recompute
      /\ run = "failed late"
      /\ \A w \in Workers : tx[w].op \notin {"capture", "refund"}
  BY DEF IndInv, CompensateHold, PaymentFree
<1>1. /\ payment' \in Payments
      /\ payment'.amount = payment.amount
      /\ ledger' \in Ledgers
      /\ ledger'.capture = ledger.capture /\ ledger'.refund = ledger.refund
      /\ ledger'.credit_line = ledger.credit_line
  BY <1>0 DEF Shape,
     Answers, Payments, Ledgers, Transactions
<1>2. Shape'
  BY <1>0, <1>1 DEF Shape
<1>3. BooksAgree'
  BY <1>0, <1>1, Recomputed DEF BooksAgree
<1>4. Covered' /\ GrantedIsPaid' /\ Unpaid'
  BY <1>0, <1>1 DEF Covered, GrantedIsPaid, Unpaid, Shape, Payments
<1>5. Locked'
  BY <1>0 DEF Locked
<1> QED
  BY <1>2, <1>3, <1>4, <1>5 DEF IndInv

LEMMA RestoreCreditKeeps == IndInv /\ RestoreCredit => IndInv'
<1> SUFFICES ASSUME IndInv, RestoreCredit PROVE IndInv'
  OBVIOUS
<1>0. /\ Shape /\ Covered /\ BooksAgree /\ GrantedIsPaid /\ Unpaid /\ Locked
      /\ UNCHANGED <<asked, answer, session, payment, taken, given, order,
                     entitled, ledger, tx>>
      /\ run = "undone" /\ run' = "unwound" /\ credit' = 0 /\ recompute
  BY DEF IndInv, RestoreCredit, books
<1>4. entitled = "none"
  BY <1>0 DEF Unpaid, Covered, Shape, Payments
<1>1. Shape'
  BY <1>0 DEF Shape
<1>2. BooksAgree'
  BY <1>0, Recomputed DEF BooksAgree
<1>3. Covered' /\ GrantedIsPaid' /\ Locked' /\ Unpaid'
  BY <1>0, <1>4 DEF Covered, GrantedIsPaid, Locked, Unpaid
<1> QED
  BY <1>1, <1>2, <1>3 DEF IndInv

-----------------------------------------------------------------------------
(* The staff *)

LEMMA BeginKeeps ==
    ASSUME IndInv, NEW w \in Workers,
           CaptureBegin(w) \/ RefundBegin(w) \/ CancelRead(w)
             \/ CancelHold(w) \/ CancelMoved(w) \/ Abort(w)
    PROVE  IndInv'
<1>0. /\ Shape /\ Covered /\ BooksAgree /\ GrantedIsPaid /\ Unpaid /\ Locked
      /\ UNCHANGED <<run, asked, answer, money, order, books>>
  BY DEF IndInv, CaptureBegin, RefundBegin, CancelRead, CancelHold, CancelMoved,
         Abort, Rest
<1>1. Covered' /\ GrantedIsPaid' /\ BooksAgree' /\ Unpaid'
  BY <1>0 DEF Covered, GrantedIsPaid, BooksAgree, Unpaid, money, books
<1>num. taken \in Nat /\ given \in Nat /\ payment.amount \in Nat
  BY <1>0 DEF Shape,
     Answers, Payments, Ledgers, Transactions
<1>2. Shape' /\ Locked'
  <2> SUFFICES ASSUME NEW t, tx' = [tx EXCEPT ![w] = t],
                      t \in Transactions,
                      t.op = "capture" =>
                        /\ PaymentFree /\ t.amount > 0 /\ ~payment.canceled
                        /\ taken + t.amount <= payment.amount,
                      t.op = "refund" =>
                        /\ PaymentFree /\ t.amount > 0
                        /\ given + t.amount <= taken,
                      t.op = "canceling" => OrderFree /\ taken <= given
               PROVE  Shape' /\ Locked'
    <3>1. CASE CaptureBegin(w)
      <4>1. PICK a \in 1 .. payment.amount - taken :
              tx' = [tx EXCEPT ![w] = [op |-> "capture", amount |-> a,
                                       from |-> "pending"]]
        BY <3>1 DEF CaptureBegin
      <4>2. a \in Nat /\ a > 0 /\ taken + a <= payment.amount
        BY <1>num
      <4> QED
        BY <3>1, <4>1, <4>2 DEF CaptureBegin, Statuses,
           Answers, Payments, Ledgers, Transactions
    <3>2. CASE RefundBegin(w)
      <4>1. PICK a \in 1 .. taken - given :
              tx' = [tx EXCEPT ![w] = [op |-> "refund", amount |-> a,
                                       from |-> "pending"]]
        BY <3>2 DEF RefundBegin
      <4>2. a \in Nat /\ a > 0 /\ given + a <= taken
        BY <1>num
      <4> QED
        BY <3>2, <4>1, <4>2 DEF RefundBegin, Statuses,
           Answers, Payments, Ledgers, Transactions
    <3>3. CASE CancelRead(w)
      BY <3>3, <1>0 DEF CancelRead, Shape,
         Answers, Payments, Ledgers, Transactions
    <3>4. CASE CancelHold(w)
      <4>1. CASE taken - given > 0
        BY <3>4, <4>1 DEF CancelHold, Rest, Idle, Statuses,
           Answers, Payments, Ledgers, Transactions
      <4>2. CASE ~(taken - given > 0)
        <5>1. taken <= given
          BY <4>2, <1>num
        <5>2. tx[w] \in Transactions
          BY <1>0 DEF Shape
        <5>3. tx' = [tx EXCEPT ![w] = [tx[w] EXCEPT !.op = "canceling"]]
          BY <3>4, <4>2 DEF CancelHold
        <5>4. [tx[w] EXCEPT !.op = "canceling"] \in
                Transactions
          BY <5>2 DEF Answers, Payments, Ledgers, Transactions
        <5>5. [tx[w] EXCEPT !.op = "canceling"].op = "canceling"
          BY <5>2
        <5> QED
          BY <5>1, <5>3, <5>4, <5>5, <3>4 DEF CancelHold
      <4> QED
        BY <4>1, <4>2
    <3>5. CASE CancelMoved(w) \/ Abort(w)
      BY <3>5 DEF CancelMoved, Abort, Rest, Idle, Statuses,
         Answers, Payments, Ledgers, Transactions
    <3> QED
      BY <3>1, <3>2, <3>3, <3>4, <3>5
  <2>1. Shape'
    BY <1>0 DEF Shape, money, books
  <2>2. Locked'
    BY <1>0 DEF Locked, Shape, PaymentFree, OrderFree, money
  <2> QED
    BY <2>1, <2>2
<1> QED
  BY <1>0, <1>1, <1>2 DEF IndInv

\* A capture is recorded: nobody else holds the payment, and nobody who has
\* the order is in the middle of cancelling it.
LEMMA CaptureEndKeeps ==
    ASSUME IndInv, NEW w \in Workers, CaptureEnd(w)
    PROVE  IndInv'
<1>0. /\ Shape /\ Covered /\ BooksAgree /\ GrantedIsPaid /\ Unpaid /\ Locked
      /\ UNCHANGED <<run, asked, answer, session, payment, given, credit, order>>
      /\ tx[w].op = "capture" /\ OrderFree /\ recompute
      /\ taken' = taken + tx[w].amount
      /\ ledger' = [ledger EXCEPT !.capture = @ + tx[w].amount]
      /\ entitled' = grant(entitled, ledger')
      /\ tx' = [tx EXCEPT ![w] = Idle]
  BY DEF IndInv, CaptureEnd, Rest
<1>num. /\ taken \in Nat /\ given \in Nat /\ payment.amount \in Nat
        /\ tx[w].amount \in Nat /\ ledger.capture \in Nat
        /\ ledger.refund \in Nat /\ ledger.credit_line \in Nat
        /\ ledger.to_credit \in Nat /\ credit \in Nat
  BY <1>0 DEF Shape,
     Answers, Payments, Ledgers, Transactions
<1>1. /\ tx[w].amount > 0 /\ ~payment.canceled
      /\ taken + tx[w].amount <= payment.amount
      /\ \A v \in Workers : v # w => tx[v].op \notin {"capture", "refund"}
  BY <1>0 DEF Locked
<1>2. /\ ledger' \in Ledgers
      /\ ledger'.payment = ledger.payment /\ ledger'.canceled = ledger.canceled
      /\ ledger'.refund = ledger.refund
      /\ ledger'.credit_line = ledger.credit_line
      /\ ledger'.to_credit = ledger.to_credit
      /\ ledger'.capture = ledger.capture + tx[w].amount
  <2> DEFINE sum == ledger.capture + tx[w].amount
  <2>1. ledger' = [ledger EXCEPT !.capture = sum] /\ sum \in Nat
    BY <1>0, <1>num
  <2>2. ledger \in Ledgers
    BY <1>0 DEF Shape
  <2> HIDE DEF sum
  <2>3. /\ ledger' \in Ledgers
        /\ ledger'.payment = ledger.payment /\ ledger'.canceled = ledger.canceled
        /\ ledger'.refund = ledger.refund /\ ledger'.capture = sum
        /\ ledger'.credit_line = ledger.credit_line
        /\ ledger'.to_credit = ledger.to_credit
    BY <2>1, <2>2 DEF Answers, Payments, Ledgers, Transactions
  <2> QED
    BY <2>3 DEF sum
<1>3. taken' \in Nat /\ taken' <= payment.amount /\ given <= taken'
  BY <1>0, <1>num, <1>1 DEF Covered
<1>4. Shape'
  <2>1. entitled' \in {"none", "granted", "revoked"}
    BY <1>0 DEF grant, Shape
  <2>2. Idle \in Transactions
    BY DEF Idle, Statuses,
       Answers, Payments, Ledgers, Transactions
  <2>3. tx' \in [Workers -> Transactions]
    BY <1>0, <2>2 DEF Shape
  <2> QED
    BY <1>0, <1>2, <1>3, <2>1, <2>3 DEF Shape
<1>5. Covered'
  BY <1>0, <1>1, <1>3 DEF Covered
<1>6. BooksAgree'
  <2>1. collection' = Summed(collection'.status, payment', taken', given', credit',
                             session')
    BY <1>0, Recomputed
  <2>2. ledger'.capture = taken' /\ ledger'.refund = given'
    BY <1>0, <1>2 DEF BooksAgree
  <2> QED
    BY <1>0, <1>2, <2>1, <2>2 DEF BooksAgree
<1>7. GrantedIsPaid'
  <2>1. entitled = "granted" => taken - given + credit >= Digital
    BY <1>0 DEF GrantedIsPaid
  <2>2. taken' - given' + credit' = taken - given + credit + tx[w].amount
    BY <1>0, <1>num
  <2>3. CASE run = "unwound"
    BY <1>0, <1>num, <1>1, <2>3 DEF Unpaid
  <2>4. CASE run # "unwound"
    <3>1. /\ ledger.capture = taken /\ ledger.refund = given
          /\ ledger.credit_line = credit
      BY <1>0, <2>4 DEF BooksAgree
    <3>2. holding(ledger') = taken - given + credit + tx[w].amount - ledger.to_credit
      BY <1>num, <1>2, <3>1 DEF holding
    <3>. QED
      BY <1>0, <1>num, <2>1, <2>2, <3>2, AmountsAssumption DEF GrantedIsPaid, grant
  <2>. QED
    BY <2>3, <2>4
<1>8. Unpaid'
  BY <1>0, <1>num, <1>1, <1>2, <1>3 DEF Unpaid
<1>9. Locked'
  <2>1. \A v \in Workers : v # w => tx'[v] = tx[v]
    BY <1>0
  <2>2. tx'[w].op = "idle"
    BY <1>0 DEF Shape, Idle
  <2> QED
    BY <1>0, <1>1, <2>1, <2>2 DEF Locked, OrderFree
<1> QED
  BY <1>4, <1>5, <1>6, <1>7, <1>8, <1>9 DEF IndInv

\* A refund is recorded: what it revokes needs no price any more.
LEMMA RefundEndKeeps ==
    ASSUME IndInv, NEW w \in Workers, RefundEnd(w)
    PROVE  IndInv'
<1>0. /\ Shape /\ Covered /\ BooksAgree /\ GrantedIsPaid /\ Unpaid /\ Locked
      /\ UNCHANGED <<run, asked, answer, session, payment, taken, credit, order>>
      /\ tx[w].op = "refund" /\ OrderFree /\ recompute
      /\ given' = given + tx[w].amount
      /\ ledger' = [ledger EXCEPT !.refund = @ + tx[w].amount]
      /\ entitled' = IF entitled = "granted" THEN "revoked" ELSE entitled
      /\ tx' = [tx EXCEPT ![w] = Idle]
  BY DEF IndInv, RefundEnd, Rest
<1>num. /\ taken \in Nat /\ given \in Nat
        /\ tx[w].amount \in Nat /\ ledger.refund \in Nat
  BY <1>0 DEF Shape,
     Answers, Payments, Ledgers, Transactions
<1>1. /\ tx[w].amount > 0
      /\ given + tx[w].amount <= taken
      /\ \A v \in Workers : v # w => tx[v].op \notin {"capture", "refund"}
  BY <1>0 DEF Locked
<1>2. /\ ledger' \in Ledgers
      /\ ledger'.payment = ledger.payment /\ ledger'.canceled = ledger.canceled
      /\ ledger'.capture = ledger.capture
      /\ ledger'.credit_line = ledger.credit_line
      /\ ledger'.refund = ledger.refund + tx[w].amount
  <2> DEFINE sum == ledger.refund + tx[w].amount
  <2>1. ledger' = [ledger EXCEPT !.refund = sum] /\ sum \in Nat
    BY <1>0, <1>num
  <2>2. ledger \in Ledgers
    BY <1>0 DEF Shape
  <2> HIDE DEF sum
  <2>3. /\ ledger' \in Ledgers
        /\ ledger'.payment = ledger.payment /\ ledger'.canceled = ledger.canceled
        /\ ledger'.capture = ledger.capture /\ ledger'.refund = sum
        /\ ledger'.credit_line = ledger.credit_line
    BY <2>1, <2>2 DEF Answers, Payments, Ledgers, Transactions
  <2> QED
    BY <2>3 DEF sum
<1>3. given' \in Nat /\ given' <= taken
  BY <1>0, <1>num, <1>1
<1>4. Shape'
  <2>1. entitled' \in {"none", "granted", "revoked"}
    BY <1>0 DEF Shape
  <2>2. Idle \in Transactions
    BY DEF Idle, Statuses,
       Answers, Payments, Ledgers, Transactions
  <2>3. tx' \in [Workers -> Transactions]
    BY <1>0, <2>2 DEF Shape
  <2> QED
    BY <1>0, <1>2, <1>3, <2>1, <2>3 DEF Shape
<1>5. Covered'
  BY <1>0, <1>3 DEF Covered
<1>6. BooksAgree'
  <2>1. collection' = Summed(collection'.status, payment', taken', given', credit',
                             session')
    BY <1>0, Recomputed
  <2>2. ledger'.capture = taken' /\ ledger'.refund = given'
    BY <1>0, <1>2 DEF BooksAgree
  <2> QED
    BY <1>0, <1>2, <2>1, <2>2 DEF BooksAgree
<1>7. GrantedIsPaid'
  BY <1>0 DEF GrantedIsPaid
<1>8. Unpaid'
  BY <1>0, <1>2 DEF Unpaid
<1>9. Locked'
  <2>1. \A v \in Workers : v # w => tx'[v] = tx[v]
    BY <1>0
  <2>2. tx'[w].op = "idle"
    BY <1>0 DEF Shape, Idle
  <2> QED
    BY <1>0, <1>1, <2>1, <2>2 DEF Locked, OrderFree
<1> QED
  BY <1>4, <1>5, <1>6, <1>7, <1>8, <1>9 DEF IndInv

\* An order is cancelled: its hold is released only while nothing was taken of
\* it and nobody is taking of it.
LEMMA CancelEndKeeps ==
    ASSUME IndInv, NEW w \in Workers, CancelEnd(w)
    PROVE  IndInv'
<1>0. /\ Shape /\ Covered /\ BooksAgree /\ GrantedIsPaid /\ Unpaid /\ Locked
      /\ UNCHANGED <<run, asked, answer, taken, given, credit, entitled>>
      /\ tx[w].op = "canceling"
      /\ Releasable => PaymentFree
      /\ order' = "canceled"
      /\ session' = IF session \in Open \/ Releasable THEN "canceled" ELSE session
      /\ payment' = [payment EXCEPT !.canceled = @ \/ Releasable]
      /\ ledger' = [ledger EXCEPT !.canceled = Canceled]
      /\ IF session \in Open \/ Releasable THEN recompute ELSE UNCHANGED collection
      /\ tx' = [tx EXCEPT ![w] = Idle]
  BY DEF IndInv, CancelEnd, Rest
<1>t. /\ payment \in Payments
      /\ ledger \in Ledgers
      /\ taken \in Nat
  BY <1>0 DEF Shape
<1>1. /\ payment' \in Payments
      /\ payment'.amount = payment.amount
      /\ payment'.canceled = (payment.canceled \/ Releasable)
  <2>1. (payment.canceled \/ Releasable) \in BOOLEAN
    BY DEF Releasable
  <2> QED
    BY <1>0, <1>t, <2>1 DEF Answers, Payments, Ledgers, Transactions
<1>2. /\ ledger' \in Ledgers
      /\ ledger'.payment = ledger.payment /\ ledger'.capture = ledger.capture
      /\ ledger'.refund = ledger.refund
      /\ ledger'.credit_line = ledger.credit_line
      /\ ledger'.canceled = Canceled
  BY <1>0, <1>t DEF Canceled,
     Answers, Payments, Ledgers, Transactions
<1>3. Shape'
  <2>2. Idle \in Transactions
    BY DEF Idle, Statuses,
       Answers, Payments, Ledgers, Transactions
  <2>3. tx' \in [Workers -> Transactions]
    BY <1>0, <2>2 DEF Shape
  <2>4. /\ session' \in {"none", "pending", "requires_more", "authorized",
                         "canceled"}
        /\ order' \in Statuses
    BY <1>0 DEF Shape, Statuses
  <2> QED
    BY <1>0, <1>1, <1>2, <2>3, <2>4 DEF Shape
<1>4. Covered'
  BY <1>0, <1>1 DEF Covered, Releasable
<1>5. collection' = Summed(collection'.status, payment', taken', given', credit',
                           session')
  <2>1. CASE session \in Open \/ Releasable
    BY <2>1, <1>0, Recomputed
  <2>2. CASE ~(session \in Open \/ Releasable)
    <3>1. payment' = payment
      <4>1. ~Releasable /\ payment.canceled \in BOOLEAN
        BY <2>2, <1>t DEF Answers, Payments, Ledgers, Transactions
      <4>2. (payment.canceled \/ Releasable) = payment.canceled
        BY <4>1
      <4> QED
        BY <4>2, <1>0, <1>t DEF Answers, Payments, Ledgers, Transactions
    <3> QED
      BY <3>1, <2>2, <1>0 DEF BooksAgree
  <2> QED
    BY <2>1, <2>2
<1>6. run' \notin {"undone", "unwound"} =>
        ledger'.payment - ledger'.canceled =
           IF payment'.canceled THEN 0 ELSE payment'.amount
  <2>1. CASE Releasable
    BY <2>1, <1>0, <1>1, <1>2, <1>t DEF Canceled,
       Answers, Payments, Ledgers, Transactions
  <2>2. CASE ~Releasable
    BY <2>2, <1>0, <1>1, <1>2 DEF Canceled, BooksAgree
  <2> QED
    BY <2>1, <2>2
<1>7. BooksAgree'
  BY <1>0, <1>2, <1>5, <1>6 DEF BooksAgree
<1>8. GrantedIsPaid'
  BY <1>0, <1>2 DEF GrantedIsPaid
<1>9. Unpaid'
  <2>1. run \in {"prepare", "skipped", "calling", "recording", "failed"} =>
          ~Releasable
    BY <1>0 DEF Unpaid, Releasable
  <2>2. session # "none" => session' # "none"
    BY <1>0
  <2> QED
    BY <1>0, <1>1, <1>2, <2>1, <2>2 DEF Unpaid, Canceled
<1>10. Locked'
  <2>1. \A v \in Workers : v # w => tx'[v] = tx[v]
    BY <1>0
  <2>2. tx'[w].op = "idle"
    BY <1>0 DEF Shape, Idle
  <2>3. \A v \in Workers : tx[v].op = "capture" => ~payment'.canceled
    BY <1>0, <1>1 DEF Locked, PaymentFree
  <2> QED
    BY <1>0, <1>1, <2>1, <2>2, <2>3 DEF Locked
<1> QED
  BY <1>3, <1>4, <1>7, <1>8, <1>9, <1>10 DEF IndInv

LEMMA CompleteKeeps == IndInv /\ Complete => IndInv'
<1> SUFFICES ASSUME IndInv, Complete PROVE IndInv'
  OBVIOUS
<1>0. /\ Shape /\ Covered /\ BooksAgree /\ GrantedIsPaid /\ Unpaid /\ Locked
      /\ UNCHANGED <<run, asked, answer, session, payment, taken, given, credit,
                     collection, ledger, entitled, tx>>
      /\ order' = "completed"
  BY DEF IndInv, Complete, money, books
<1>1. Shape'
  <2>1. order' \in Statuses
    BY <1>0 DEF Statuses
  <2> QED
    BY <1>0, <2>1 DEF Shape
<1>2. Covered' /\ GrantedIsPaid' /\ BooksAgree' /\ Unpaid' /\ Locked'
  BY <1>0 DEF Covered, GrantedIsPaid, BooksAgree, Unpaid, Locked
<1> QED
  BY <1>1, <1>2 DEF IndInv

\* A refund to the shopper's balance touches the ledger only, and none of the
\* rows the other books are about.
LEMMA RefundToCreditKeeps == IndInv /\ RefundToCredit => IndInv'
<1> SUFFICES ASSUME IndInv, RefundToCredit PROVE IndInv'
  OBVIOUS
<1>0. /\ Shape /\ Covered /\ BooksAgree /\ GrantedIsPaid /\ Unpaid /\ Locked
      /\ UNCHANGED <<run, asked, answer, session, payment, taken, given, credit,
                     collection, order, entitled, tx>>
  BY DEF IndInv, RefundToCredit, money
<1>1. PICK a \in Backs : ledger' = [ledger EXCEPT !.to_credit = a]
  BY DEF RefundToCredit
<1>2. a \in Nat /\ ledger \in Ledgers
  BY <1>0, AmountsAssumption DEF Shape
<1>3. /\ ledger' \in Ledgers
      /\ ledger'.payment = ledger.payment /\ ledger'.canceled = ledger.canceled
      /\ ledger'.capture = ledger.capture /\ ledger'.refund = ledger.refund
      /\ ledger'.credit_line = ledger.credit_line
  BY <1>1, <1>2 DEF Ledgers
<1>4. Shape' /\ Covered' /\ GrantedIsPaid' /\ Locked'
  BY <1>0, <1>3 DEF Shape, Covered, GrantedIsPaid, Locked
<1>5. BooksAgree' /\ Unpaid'
  BY <1>0, <1>3 DEF BooksAgree, Unpaid
<1> QED
  BY <1>4, <1>5 DEF IndInv

LEMMA StutterKeeps == IndInv /\ UNCHANGED vars => IndInv'
<1> SUFFICES ASSUME IndInv, UNCHANGED vars PROVE IndInv'
  OBVIOUS
<1>0. UNCHANGED <<run, asked, answer, session, payment, taken, given, credit,
                  collection, order, ledger, entitled, tx>>
  BY DEF vars, money, books
<1>1. Shape'
  BY <1>0 DEF IndInv, Shape
<1>2. Covered' /\ GrantedIsPaid' /\ BooksAgree' /\ Unpaid' /\ Locked'
  BY <1>0 DEF IndInv, Covered, GrantedIsPaid, BooksAgree, Unpaid, Locked
<1> QED
  BY <1>1, <1>2 DEF IndInv

LEMMA NextKeeps == IndInv /\ [Next]_vars => IndInv'
<1> SUFFICES ASSUME IndInv, [Next]_vars PROVE IndInv'
  OBVIOUS
<1>1. CASE Checkout
  BY <1>1, PrepareKeeps, CallKeeps, RecordHoldKeeps, RecordWaitKeeps,
     OnlyRunKeeps, CompensateSessionKeeps, CompensateHoldKeeps,
     RestoreCreditKeeps DEF Checkout
<1>2. CASE Complete
  BY <1>2, CompleteKeeps
<1>5. CASE RefundToCredit
  BY <1>5, RefundToCreditKeeps
<1>3. CASE \E w \in Workers : CaptureBegin(w) \/ RefundBegin(w) \/ CancelRead(w)
                              \/ Ends(w)
  BY <1>3, BeginKeeps, CaptureEndKeeps, RefundEndKeeps, CancelEndKeeps DEF Ends
<1>4. CASE UNCHANGED vars
  BY <1>4, StutterKeeps
<1> QED
  BY <1>1, <1>2, <1>3, <1>4, <1>5 DEF Next

-----------------------------------------------------------------------------
(* The payout lines *)

\* A product grows with its factor, by as much again for each one more.
LEMMA Times ==
    ASSUME NEW d \in Nat, NEW p \in Int, NEW q \in Int
    PROVE  /\ d * p \in Int
           /\ d * (p + q) = d * p + d * q
           /\ q >= 0 => d * q >= 0
OBVIOUS

LEMMA Division ==
    ASSUME NEW d \in Nat \ {0}, NEW n \in Nat
    PROVE  /\ n \div d \in Nat /\ n % d \in Nat /\ n % d < d
           /\ n = d * (n \div d) + (n % d)
OBVIOUS

\* A share that comes to no more than the whole is rounded to no more than it.
LEMMA RoundedShare ==
    ASSUME NEW d \in Nat \ {0}, NEW n \in Nat, NEW a \in Nat, n <= d * a
    PROVE  Rounded(n, d) \in 0 .. a
<1>. DEFINE q == n \div d
            r == n % d
<1>1. q \in Nat /\ r \in Nat /\ r < d /\ n = d * q + r
  BY Division
<1>2. Rounded(n, d) = IF 2 * r > d \/ (2 * r = d /\ q % 2 = 1) THEN q + 1 ELSE q
  BY DEF Rounded
<1>. HIDE DEF q, r
<1>3. CASE q < a
  BY <1>1, <1>2, <1>3
<1>4. CASE q = a
  <2>1. r = 0
    <3>1. d * a \in Int
      BY Times
    <3>. QED
      BY <1>1, <1>4, <3>1
  <2>. QED
    BY <1>1, <1>2, <1>4, <2>1
<1>5. CASE q > a
  <2>. DEFINE p == q - a
              m == p - 1
  <2>1. m \in Nat /\ p = 1 + m /\ q = a + p /\ p \in Int
    BY <1>1, <1>5
  <2>. HIDE DEF p, m
  <2>2. d * q = d * a + d * p /\ d * p = d * 1 + d * m /\ d * m >= 0
    BY <2>1, Times
  <2>3. d * 1 = d /\ d * a \in Int /\ d * p \in Int /\ d * m \in Int
    BY <2>1, Times
  <2>. QED
    BY <1>1, <2>2, <2>3
<1>. QED
  BY <1>1, <1>3, <1>4, <1>5

\* What a capture earns is split between the seller and the shop, whatever the
\* fee of the day.
LEMMA EarnedWhole ==
    ASSUME NEW a \in Nat \ {0}, NEW fee \in Fees
    PROVE  /\ Earned(a, fee) \in PayoutLines
           /\ earned(Earned(a, fee)) = a /\ undone(Earned(a, fee)) = 0
<1>. DEFINE n == a * (Amount - fee)
            s == Rounded(n, Amount)
<1>1. Amount \in Nat \ {0} /\ fee \in Nat /\ fee <= Amount
  BY AmountsAssumption
<1>2. n \in Nat /\ n <= Amount * a
  <2>. DEFINE m == Amount - fee
  <2>1. m \in Nat /\ Amount = m + fee
    BY <1>1
  <2>. HIDE DEF m
  <2>2. a * (m + fee) = a * m + a * fee /\ a * m \in Int /\ a * fee \in Int
        /\ a * fee >= 0 /\ a * m >= 0
    BY <1>1, <2>1, Times
  <2>3. a * Amount = Amount * a
    BY <1>1
  <2>4. a * Amount = a * m + a * fee
    BY <2>1, <2>2
  <2>5. n = a * m
    BY DEF m
  <2>. QED
    BY <2>2, <2>3, <2>4, <2>5
<1>3. s \in 0 .. a
  <2>. HIDE DEF n
  <2>. QED
    BY <1>1, <1>2, RoundedShare
<1>4. Earned(a, fee) = [seller |-> s, commission |-> a - s,
                        sellerBack |-> 0, commissionBack |-> 0]
  BY DEF Earned
<1>. HIDE DEF s
<1>5. s \in Nat /\ a - s \in Nat /\ s + (a - s) = a
  BY <1>3
<1>. QED
  BY <1>4, <1>5 DEF PayoutLines, earned, undone

\* t takes an amount from f, oldest first.
Takes(t, amount, f, n) ==
    \A k \in 1 .. n :
        LET left == AtLeast0(amount - SumFunctionOnSet(f, 1 .. k - 1))
        IN  t[k] = IF left < f[k] THEN left ELSE f[k]

\* All of it is taken, as far as it goes, and of each no more than it has.
LEMMA TakesAll ==
    ASSUME NEW n \in Nat, NEW f, \A i \in 1 .. n : f[i] \in Nat,
           NEW amount \in Nat, NEW t, Takes(t, amount, f, n)
    PROVE  /\ \A i \in 1 .. n : t[i] \in 0 .. f[i]
           /\ SumFunctionOnSet(t, 1 .. n) =
                 IF amount < SumFunctionOnSet(f, 1 .. n) THEN amount
                 ELSE SumFunctionOnSet(f, 1 .. n)
<1>. DEFINE F(k) == SumFunctionOnSet(f, 1 .. k)
            T(k) == SumFunctionOnSet(t, 1 .. k)
            W == {k \in 0 .. n : F(k) \in Nat /\ T(k) = IF amount < F(k) THEN amount ELSE F(k)}
<1>0. n \in Nat
  OBVIOUS
<1>1. \A k \in 1 .. n : F(k - 1) \in Int
  <2>. SUFFICES ASSUME NEW k \in 1 .. n PROVE F(k - 1) \in Int
    OBVIOUS
  <2>. DEFINE S == 1 .. k - 1
  <2>1. IsFiniteSet(S)
    BY FS_Interval
  <2>2. \A i \in S : f[i] \in Int
    BY <1>0
  <2>. HIDE DEF S
  <2>3. SumFunctionOnSet(f, S) \in Int
    BY <2>1, <2>2, OnSetRemove
  <2>. QED
    BY <2>3 DEF S
<1>2. \A k \in 1 .. n :
        LET left == AtLeast0(amount - F(k - 1))
        IN  t[k] = IF left < f[k] THEN left ELSE f[k]
  BY DEF Takes
<1>3. \A k \in 1 .. n : t[k] \in 0 .. f[k] /\ t[k] \in Int /\ f[k] \in Int
  <2>. SUFFICES ASSUME NEW k \in 1 .. n
                PROVE  t[k] \in 0 .. f[k] /\ t[k] \in Int /\ f[k] \in Int
    OBVIOUS
  <2>. DEFINE left == AtLeast0(amount - F(k - 1))
  <2>1. left \in Nat
    <3>1. F(k - 1) \in Int
      BY <1>1
    <3>. HIDE DEF F
    <3>. QED
      BY <3>1 DEF AtLeast0
  <2>2. t[k] = IF left < f[k] THEN left ELSE f[k]
    BY <1>2
  <2>3. f[k] \in Nat
    BY <1>0
  <2>. HIDE DEF left
  <2>. QED
    BY <2>1, <2>2, <2>3
<1>4. 0 \in W
  <2>1. 1 .. 0 = {}
    OBVIOUS
  <2>2. F(0) = 0 /\ T(0) = 0
    BY <2>1, OnSetEmpty
  <2>. HIDE DEF F, T
  <2>. QED
    BY <1>0, <2>2
<1>5. ASSUME NEW k \in 0 .. n - 1, k \in W PROVE k + 1 \in W
  <2>1. k \in Nat /\ k + 1 \in 1 .. n /\ (k + 1) - 1 = k /\ k + 1 \in 0 .. n
    BY <1>0
  <2>2. F(k + 1) = F(k) + f[k + 1]
    <3>1. \A i \in 1 .. k + 1 : f[i] \in Int
      BY <1>0, <1>3, <2>1
    <3>. QED
      BY <2>1, <3>1, OnSetLast
  <2>3. T(k + 1) = T(k) + t[k + 1]
    <3>1. \A i \in 1 .. k + 1 : t[i] \in Int
      BY <1>0, <1>3, <2>1
    <3>. QED
      BY <2>1, <3>1, OnSetLast
  <2>4. LET left == AtLeast0(amount - F(k))
        IN  t[k + 1] = IF left < f[k + 1] THEN left ELSE f[k + 1]
    <3>. HIDE DEF F
    <3>. QED
      BY <1>2, <2>1
  <2>5. f[k + 1] \in Nat
    BY <2>1
  <2>6. F(k) \in Nat /\ T(k) = IF amount < F(k) THEN amount ELSE F(k)
    BY <1>5
  <2>. HIDE DEF F, T
  <2>. QED
    BY <2>1, <2>2, <2>3, <2>4, <2>5, <2>6 DEF AtLeast0
<1>6. n \in W
  <2>. HIDE DEF W
  <2>1. 0 .. n \subseteq W
    BY <1>4, <1>5, Upwards
  <2>. QED
    BY <2>1
<1>. QED
  BY <1>3, <1>6

\* What the order's ledger says the payment brought.
kept == ledger.capture - ledger.refund

\* What the payout lines are always like.
SharesInv ==
    /\ lines \in Seq(PayoutLines)
    /\ \A k \in DOMAIN lines : earned(lines[k]) > 0
    /\ SharesAddUp

openings(of) == [k \in DOMAIN of |-> earned(of[k]) - undone(of[k])]

\* A capture adds a line that nothing was taken back of.
LEMMA CaptureShares ==
    ASSUME SharesInv, kept \in Int, NEW a \in Nat \ {0}, NEW fee \in Fees,
           lines' = Append(lines, Earned(a, fee)), kept' = kept + a
    PROVE  SharesInv'
<1>. DEFINE n == Len(lines)
            line == Earned(a, fee)
            f == openings(lines)
            g == openings(lines')
<1>1. line \in PayoutLines /\ earned(line) = a /\ undone(line) = 0
  BY EarnedWhole
<1>2. n \in Nat /\ DOMAIN lines = 1 .. n /\ lines \in Seq(PayoutLines)
  BY DEF SharesInv
<1>. HIDE DEF line
<1>3. /\ lines' \in Seq(PayoutLines) /\ DOMAIN lines' = 1 .. n + 1
      /\ lines'[n + 1] = line
      /\ \A k \in 1 .. n : lines'[k] = lines[k]
  BY <1>1, <1>2 DEF line
<1>4. \A k \in 1 .. n : lines[k] \in PayoutLines
  BY <1>2
<1>5. \A k \in 1 .. n : f[k] \in Int /\ g[k] = f[k]
  <2>. SUFFICES ASSUME NEW k \in 1 .. n PROVE f[k] \in Int /\ g[k] = f[k]
    OBVIOUS
  <2>1. earned(lines[k]) \in Int /\ undone(lines[k]) \in Int
    BY <1>4 DEF earned, undone, PayoutLines
  <2>2. k \in DOMAIN lines /\ k \in DOMAIN lines' /\ lines'[k] = lines[k]
    BY <1>2, <1>3
  <2>3. f[k] = earned(lines[k]) - undone(lines[k]) /\ g[k] = earned(lines'[k]) - undone(lines'[k])
    BY <2>2 DEF openings
  <2>. QED
    BY <2>1, <2>2, <2>3
<1>6. g[n + 1] = a
  BY <1>1, <1>2, <1>3 DEF openings
<1>7. SumFunctionOnSet(f, 1 .. n) = kept
  BY <1>2 DEF SharesInv, SharesAddUp, SumFunction, openings, kept
<1>8. SumFunctionOnSet(g, 1 .. n) = SumFunctionOnSet(f, 1 .. n)
  <2>. DEFINE S == 1 .. n
  <2>1. IsFiniteSet(S)
    BY <1>2, FS_Interval
  <2>2. \A k \in S : f[k] \in Int /\ g[k] = f[k]
    BY <1>5
  <2>. HIDE DEF S, f, g
  <2>3. SumFunctionOnSet(g, S) = SumFunctionOnSet(f, S)
    BY <2>1, <2>2, OnSetSame
  <2>. QED
    BY <2>3 DEF S
<1>9. SumFunctionOnSet(g, 1 .. n + 1) = SumFunctionOnSet(g, 1 .. n) + g[n + 1]
  <2>1. \A k \in 1 .. n + 1 : g[k] \in Int
    BY <1>2, <1>5, <1>6
  <2>. HIDE DEF g, n
  <2>. QED
    BY <1>2, <2>1, OnSetLast
<1>10. SumFunction(openings(lines')) = kept'
  <2>1. SumFunctionOnSet(g, 1 .. n + 1) = kept + a
    BY <1>6, <1>7, <1>8, <1>9
  <2>2. DOMAIN openings(lines') = 1 .. n + 1
    BY <1>3 DEF openings
  <2>. HIDE DEF n
  <2>. QED
    BY <2>1, <2>2 DEF SumFunction
<1>11. \A k \in DOMAIN lines' : earned(lines'[k]) > 0 /\ undone(lines'[k]) <= earned(lines'[k])
  <2>. SUFFICES ASSUME NEW k \in 1 .. n + 1
                PROVE  earned(lines'[k]) > 0 /\ undone(lines'[k]) <= earned(lines'[k])
    BY <1>3
  <2>1. CASE k = n + 1
    BY <1>1, <1>3, <2>1
  <2>2. CASE k # n + 1
    <3>1. k \in 1 .. n
      BY <1>2, <2>2
    <3>. QED
      BY <1>2, <1>3, <3>1 DEF SharesInv, SharesAddUp
  <2>. QED
    BY <2>1, <2>2
<1>. QED
  BY <1>3, <1>10, <1>11 DEF SharesInv, SharesAddUp, openings, earned, undone, kept

\* Shared between two, an amount is all there.
LEMMA ShareOut ==
    ASSUME NEW b \in Nat, NEW c \in Nat, NEW x \in Nat, NEW s \in 0 .. x
    PROVE  /\ b + s \in Nat /\ c + x - s \in Nat
           /\ (b + s) + (c + x - s) = b + c + x
OBVIOUS

\* A refund takes all of its amount from the lines, oldest first.
LEMMA RefundShares ==
    ASSUME SharesInv, kept \in Int, NEW amount \in Nat, amount <= kept,
           lines' = Reversed(amount), kept' = kept - amount
    PROVE  SharesInv'
<1>. DEFINE n == Len(lines)
            f == openings(lines)
            g == openings(lines')
            t == [k \in DOMAIN lines |->
                    LET left == AtLeast0(amount - OpenBefore(k))
                    IN  IF left < open(lines[k]) THEN left ELSE open(lines[k])]
<1>1. n \in Nat /\ DOMAIN lines = 1 .. n /\ lines \in Seq(PayoutLines)
  BY DEF SharesInv
<1>2. \A k \in 1 .. n :
        /\ lines[k] \in PayoutLines /\ earned(lines[k]) > 0
        /\ undone(lines[k]) <= earned(lines[k])
  BY <1>1 DEF SharesInv, SharesAddUp
<1>3. \A k \in 1 .. n : f[k] \in Nat /\ f[k] = open(lines[k])
  <2>. SUFFICES ASSUME NEW k \in 1 .. n PROVE f[k] \in Nat /\ f[k] = open(lines[k])
    OBVIOUS
  <2>1. earned(lines[k]) \in Nat /\ undone(lines[k]) \in Nat
    BY <1>2 DEF earned, undone, PayoutLines
  <2>2. undone(lines[k]) <= earned(lines[k])
    BY <1>2
  <2>3. f[k] = earned(lines[k]) - undone(lines[k])
    BY <1>1 DEF openings
  <2>. QED
    BY <2>1, <2>2, <2>3 DEF open
<1>4. f = [k \in DOMAIN lines |-> open(lines[k])]
  BY DEF openings, open
<1>5. Takes(t, amount, f, n)
  BY <1>1, <1>3, <1>4 DEF Takes, OpenBefore
<1>6. SumFunctionOnSet(f, 1 .. n) = kept
  BY <1>1 DEF SharesInv, SharesAddUp, SumFunction, openings, kept
<1>7. /\ \A k \in 1 .. n : t[k] \in 0 .. f[k]
      /\ SumFunctionOnSet(t, 1 .. n) = amount
  <2>. HIDE DEF t, f, n
  <2>1. /\ \A k \in 1 .. n : t[k] \in 0 .. f[k]
        /\ SumFunctionOnSet(t, 1 .. n) =
             IF amount < SumFunctionOnSet(f, 1 .. n) THEN amount
             ELSE SumFunctionOnSet(f, 1 .. n)
    BY <1>1, <1>3, <1>5, TakesAll
  <2>. QED
    BY <1>6, <2>1
<1>8. DOMAIN lines' = 1 .. n
  BY <1>1 DEF Reversed
<1>9. ASSUME NEW k \in 1 .. n
      PROVE  /\ lines'[k] \in PayoutLines
             /\ earned(lines'[k]) = earned(lines[k])
             /\ undone(lines'[k]) = undone(lines[k]) + t[k]
  <2>. DEFINE s == Rounded(t[k] * lines[k].seller, earned(lines[k]))
  <2>1. lines'[k] = [lines[k] EXCEPT !.sellerBack = @ + s,
                                     !.commissionBack = @ + t[k] - s]
    BY <1>1 DEF Reversed
  <2>2. /\ lines[k] \in PayoutLines
        /\ earned(lines[k]) \in Nat \ {0} /\ lines[k].seller \in Nat
        /\ lines[k].seller <= earned(lines[k])
        /\ lines[k].sellerBack \in Nat /\ lines[k].commissionBack \in Nat
    BY <1>2 DEF earned, PayoutLines
  <2>3. t[k] \in Nat
    <3>1. t[k] \in 0 .. f[k] /\ f[k] \in Nat
      BY <1>3, <1>7
    <3>. HIDE DEF t, f
    <3>. QED
      BY <3>1
  <2>. HIDE DEF t
  <2>4. s \in 0 .. t[k]
    <3>. DEFINE e == earned(lines[k])
                w == lines[k].seller
                m == e - w
    <3>1. e \in Nat \ {0} /\ w \in Nat /\ m \in Nat /\ e = w + m
      BY <2>2
    <3>. HIDE DEF e, w, m
    <3>2. /\ t[k] * (w + m) = t[k] * w + t[k] * m
          /\ t[k] * w \in Int /\ t[k] * m \in Int
          /\ t[k] * w >= 0 /\ t[k] * m >= 0
      <4>1. t[k] * w \in Int /\ t[k] * (w + m) = t[k] * w + t[k] * m /\ t[k] * m >= 0
        BY <2>3, <3>1, Times
      <4>2. t[k] * m \in Int /\ t[k] * w >= 0
        BY <2>3, <3>1, Times
      <4>. QED
        BY <4>1, <4>2
    <3>3. t[k] * e = e * t[k]
      BY <2>3, <3>1
    <3>4. t[k] * w \in Nat /\ t[k] * w <= e * t[k]
      BY <3>1, <3>2, <3>3
    <3>5. Rounded(t[k] * w, e) \in 0 .. t[k]
      <4>. DEFINE x == t[k] * w
      <4>1. x \in Nat /\ x <= e * t[k]
        BY <3>4
      <4>. HIDE DEF x
      <4>. QED
        BY <2>3, <3>1, <4>1, RoundedShare DEF x
    <3>. QED
      BY <3>5 DEF e, w
  <2>. DEFINE b == lines[k].sellerBack
              c == lines[k].commissionBack
  <2>b. b \in Nat /\ c \in Nat
    BY <2>2
  <2>. HIDE DEF s, b, c
  <2>5. /\ b + s \in Nat /\ c + t[k] - s \in Nat
        /\ (b + s) + (c + t[k] - s) = b + c + t[k]
    BY <2>3, <2>4, <2>b, ShareOut
  <2>6. /\ lines'[k] \in PayoutLines
        /\ lines'[k].seller = lines[k].seller
        /\ lines'[k].commission = lines[k].commission
        /\ lines'[k].sellerBack = b + s
        /\ lines'[k].commissionBack = c + t[k] - s
    BY <2>1, <2>2, <2>5 DEF PayoutLines, b, c
  <2>7. earned(lines'[k]) = earned(lines[k])
    BY <2>6 DEF earned
  <2>8. undone(lines'[k]) = (b + s) + (c + t[k] - s) /\ undone(lines[k]) = b + c
    BY <2>6 DEF undone, b, c
  <2>. QED
    BY <2>5, <2>6, <2>7, <2>8
<1>10. lines' \in Seq(PayoutLines)
  <2>1. lines' = [k \in 1 .. n |-> lines'[k]]
    BY <1>1, <1>8 DEF Reversed
  <2>. QED
    BY <1>1, <1>9, <2>1
<1>11. \A k \in 1 .. n : earned(lines'[k]) > 0 /\ undone(lines'[k]) <= earned(lines'[k])
  <2>. SUFFICES ASSUME NEW k \in 1 .. n
                PROVE  earned(lines'[k]) > 0 /\ undone(lines'[k]) <= earned(lines'[k])
    OBVIOUS
  <2>1. t[k] \in 0 .. f[k] /\ f[k] \in Nat /\ f[k] = earned(lines[k]) - undone(lines[k])
    BY <1>1, <1>3, <1>7 DEF openings
  <2>2. earned(lines[k]) \in Nat /\ undone(lines[k]) \in Nat /\ earned(lines[k]) > 0
    BY <1>2 DEF earned, undone, PayoutLines
  <2>3. earned(lines'[k]) = earned(lines[k]) /\ undone(lines'[k]) = undone(lines[k]) + t[k]
    BY <1>9
  <2>. HIDE DEF t, f
  <2>. QED
    BY <2>1, <2>2, <2>3
<1>12. \A k \in 1 .. n : g[k] \in Int /\ t[k] \in Int /\ f[k] = g[k] + t[k]
  <2>. SUFFICES ASSUME NEW k \in 1 .. n
                PROVE  g[k] \in Int /\ t[k] \in Int /\ f[k] = g[k] + t[k]
    OBVIOUS
  <2>1. t[k] \in 0 .. f[k] /\ f[k] \in Nat /\ f[k] = earned(lines[k]) - undone(lines[k])
    BY <1>1, <1>3, <1>7 DEF openings
  <2>2. earned(lines[k]) \in Nat /\ undone(lines[k]) \in Nat
    BY <1>2 DEF earned, undone, PayoutLines
  <2>3. earned(lines'[k]) = earned(lines[k]) /\ undone(lines'[k]) = undone(lines[k]) + t[k]
    BY <1>9
  <2>4. g[k] = earned(lines'[k]) - undone(lines'[k])
    BY <1>8 DEF openings
  <2>. HIDE DEF t, f, g
  <2>. QED
    BY <2>1, <2>2, <2>3, <2>4
<1>13. SumFunction(openings(lines')) = kept'
  <2>1. DOMAIN openings(lines') = 1 .. n
    BY <1>8 DEF openings
  <2>. DEFINE S == 1 .. n
  <2>2. IsFiniteSet(S)
    BY <1>1, FS_Interval
  <2>3. \A k \in S : g[k] \in Int /\ t[k] \in Int /\ f[k] = g[k] + t[k]
    BY <1>12
  <2>. HIDE DEF S, f, g, t
  <2>4. SumFunctionOnSet(f, S) = SumFunctionOnSet(g, S) + SumFunctionOnSet(t, S)
    BY <2>2, <2>3, OnSetAdds
  <2>5. SumFunctionOnSet(g, S) \in Int
    BY <2>2, <2>3, OnSetRemove
  <2>6. SumFunctionOnSet(g, S) = kept - amount
    BY <1>6, <1>7, <2>4, <2>5 DEF S
  <2>. QED
    BY <2>1, <2>6 DEF S, g, SumFunction
<1>. QED
  BY <1>8, <1>10, <1>11, <1>13 DEF SharesInv, SharesAddUp, openings, earned, undone, kept

LEMMA SharesInit == Init => SharesInv
<1>. SUFFICES ASSUME Init PROVE SharesInv
  OBVIOUS
<1>1. lines = <<>> /\ DOMAIN lines = {}
  BY DEF Init
<1>2. SumFunctionOnSet(openings(lines), {}) = 0 /\ DOMAIN openings(lines) = {}
  BY <1>1, OnSetEmpty DEF openings
<1>3. SumFunction(openings(lines)) = kept
  BY <1>2 DEF Init, kept, SumFunction
<1>4. lines \in Seq(PayoutLines)
  BY <1>1
<1>. QED
  BY <1>1, <1>3, <1>4 DEF SharesInv, SharesAddUp, openings, earned, undone, kept

LEMMA SharesNext == IndInv /\ SharesInv /\ [Next]_vars => SharesInv'
<1>. SUFFICES ASSUME IndInv, SharesInv, [Next]_vars PROVE SharesInv'
  OBVIOUS
<1>1. /\ ledger \in Ledgers /\ ledger.capture = taken /\ ledger.refund = given
      /\ ledger.capture \in Int /\ ledger.refund \in Int /\ kept \in Int
  <2>1. ledger \in Ledgers /\ ledger.capture = taken /\ ledger.refund = given
    BY DEF IndInv, Shape, BooksAgree
  <2>2. ledger.capture \in Int /\ ledger.refund \in Int
    BY <2>1 DEF Ledgers
  <2>. QED
    BY <2>1, <2>2 DEF kept
<1>2. ASSUME NEW w \in Workers, CaptureEnd(w)
      PROVE  SharesInv'
  <2>1. PICK fee \in Fees : lines' = Append(lines, Earned(tx[w].amount, fee))
    BY <1>2 DEF CaptureEnd
  <2>2. tx[w].amount \in Nat \ {0}
    <3>1. tx[w] \in Transactions /\ tx[w].op = "capture"
      BY <1>2 DEF IndInv, Shape, CaptureEnd
    <3>2. tx[w].amount \in Nat /\ tx[w].amount > 0
      BY <3>1 DEF IndInv, Locked, Transactions
    <3>. QED
      BY <3>2
  <2>3. ledger' = [ledger EXCEPT !.capture = @ + tx[w].amount]
    BY <1>2 DEF CaptureEnd
  <2>4. /\ ledger'.capture = ledger.capture + tx[w].amount
        /\ ledger'.refund = ledger.refund
    BY <1>1, <2>3 DEF Ledgers
  <2>5. kept' = kept + tx[w].amount
    BY <1>1, <2>2, <2>4 DEF kept
  <2>. QED
    BY <1>1, <2>1, <2>2, <2>5, CaptureShares
<1>3. ASSUME NEW w \in Workers, RefundEnd(w)
      PROVE  SharesInv'
  <2>1. lines' = Reversed(tx[w].amount)
    BY <1>3 DEF RefundEnd
  <2>2. /\ tx[w].amount \in Nat /\ given + tx[w].amount <= taken
        /\ given \in Nat /\ taken \in Nat
    BY <1>3 DEF IndInv, Shape, Locked, Transactions, RefundEnd
  <2>3. ledger' = [ledger EXCEPT !.refund = @ + tx[w].amount]
    BY <1>3 DEF RefundEnd
  <2>4. /\ ledger'.refund = ledger.refund + tx[w].amount
        /\ ledger'.capture = ledger.capture
    BY <1>1, <2>3 DEF Ledgers
  <2>5. kept' = kept - tx[w].amount
    BY <1>1, <2>2, <2>4 DEF kept
  <2>6. tx[w].amount <= kept
    BY <1>1, <2>2 DEF kept
  <2>. QED
    BY <1>1, <2>1, <2>2, <2>5, <2>6, RefundShares
<1>4. ASSUME lines' = lines, ledger'.capture = ledger.capture, ledger'.refund = ledger.refund
      PROVE  SharesInv'
  BY <1>4 DEF SharesInv, SharesAddUp, kept
<1>5. CASE UNCHANGED vars
  BY <1>4, <1>5 DEF vars, books
<1>6. CASE Checkout
  <2>1. lines' = lines
    BY <1>6 DEF Checkout, Prepare, Call, RecordHold, RecordWait, RecordFails, Conclude,
       CompensateSession, CompensateHold, CompensateRefused, RestoreCredit, books
  <2>2. \/ ledger' = ledger \/ ledger' = [ledger EXCEPT !.payment = 0]
        \/ ledger' = [ledger EXCEPT !.payment = answer.held]
    BY <1>6 DEF Checkout, Prepare, Call, RecordHold, RecordWait, RecordFails, Conclude,
       CompensateSession, CompensateHold, CompensateRefused, RestoreCredit, books
  <2>3. ledger'.capture = ledger.capture /\ ledger'.refund = ledger.refund
    BY <1>1, <2>2 DEF Ledgers
  <2>. QED
    BY <1>4, <2>1, <2>3
<1>7. CASE Complete
  BY <1>4, <1>7 DEF Complete, books
<1>9. CASE RefundToCredit
  <2>1. lines' = lines
    BY <1>9 DEF RefundToCredit
  <2>2. PICK a \in Backs : ledger' = [ledger EXCEPT !.to_credit = a]
    BY <1>9 DEF RefundToCredit
  <2>3. ledger'.capture = ledger.capture /\ ledger'.refund = ledger.refund
    BY <1>1, <2>2 DEF Ledgers
  <2>. QED
    BY <1>4, <2>1, <2>3
<1>8. ASSUME NEW w \in Workers,
             CaptureBegin(w) \/ RefundBegin(w) \/ CancelRead(w) \/ Ends(w)
      PROVE  SharesInv'
  <2>1. CASE CancelEnd(w)
    <3>1. lines' = lines /\ ledger' = [ledger EXCEPT !.canceled = Canceled]
      BY <2>1 DEF CancelEnd
    <3>2. ledger'.capture = ledger.capture /\ ledger'.refund = ledger.refund
      BY <1>1, <3>1 DEF Ledgers
    <3>. QED
      BY <1>4, <3>1, <3>2
  <2>2. CASE \/ CaptureBegin(w) \/ RefundBegin(w) \/ CancelRead(w)
             \/ CancelHold(w) \/ CancelMoved(w) \/ Abort(w)
    <3>1. lines' = lines /\ ledger' = ledger
      BY <2>2 DEF CaptureBegin, RefundBegin, CancelRead, CancelHold, CancelMoved, Abort, books
    <3>. QED
      BY <1>4, <3>1
  <2>. QED
    BY <1>2, <1>3, <1>8, <2>1, <2>2 DEF Ends
<1>. QED
  BY <1>5, <1>6, <1>7, <1>8, <1>9 DEF Next

-----------------------------------------------------------------------------
(* Theorems *)

\* The invariant holds in every state a checkout and any number of staff reach.
THEOREM PaymentInvariance == Spec => []IndInv
<1>1. Init => IndInv
  BY InitInvariant
<1>2. IndInv /\ [Next]_vars => IndInv'
  BY NextKeeps
<1> QED
  BY <1>1, <1>2, PTL DEF Spec

\* However many transactions capture, refund, compensate and cancel at once,
\* no more is taken than is held, no more given back than was taken, and
\* nothing is taken of a hold that was released.
THEOREM CoveredAlways == Spec => []Covered
<1>1. IndInv => Covered
  BY DEF IndInv
<1> QED
  BY <1>1, PaymentInvariance, PTL

\* The collection's sums, the order's ledger and the rows they are about agree
\* after every transaction.
THEOREM BooksAlwaysAgree == Spec => []BooksAgree
<1>1. IndInv => BooksAgree
  BY DEF IndInv
<1> QED
  BY <1>1, PaymentInvariance, PTL

\* A digital line is open to its buyer only while captures less refunds, and
\* the credit that is still carried, cover its price.
THEOREM GrantedAlwaysPaid == Spec => []GrantedIsPaid
<1>1. IndInv => GrantedIsPaid
  BY DEF IndInv
<1> QED
  BY <1>1, PaymentInvariance, PTL

\* The step that cancels an order keeps no money, leaves no session open and
\* no untouched hold behind: who cancels has the order's row, so what it read
\* of the captures is still so when it writes.
THEOREM CancelAlwaysReturns == Spec => CancelReturns
<1> DEFINE Returns ==
      order # "canceled" /\ order' = "canceled" =>
         /\ taken' = given'
         /\ session' \notin Open
         /\ payment'.amount > 0 => payment'.canceled \/ taken' > 0
<1>1. IndInv /\ [Next]_vars => [Returns]_vars
  <2> SUFFICES ASSUME IndInv, [Next]_vars, order # "canceled", order' = "canceled"
               PROVE  /\ taken' = given'
                      /\ session' \notin Open
                      /\ payment'.amount > 0 => payment'.canceled \/ taken' > 0
    OBVIOUS
  <2>1. PICK w \in Workers : CancelEnd(w)
    <3>1. CASE Checkout
      BY <3>1 DEF Checkout, Prepare, Call, RecordHold, RecordWait, RecordFails,
                  Conclude, CompensateSession, CompensateHold, CompensateRefused,
                  RestoreCredit
    <3>2. CASE Complete
      BY <3>2 DEF Complete
    <3>5. CASE RefundToCredit
      BY <3>5 DEF RefundToCredit
    <3>3. CASE UNCHANGED vars
      BY <3>3 DEF vars
    <3>4. CASE \E w \in Workers : CaptureBegin(w) \/ RefundBegin(w)
                                  \/ CancelRead(w) \/ Ends(w)
      BY <3>4 DEF Ends, CaptureBegin, RefundBegin, CancelRead, CaptureEnd,
                  RefundEnd, CancelHold, CancelMoved, Abort
    <3> QED
      BY <3>1, <3>2, <3>3, <3>4, <3>5 DEF Next
  <2>2. /\ taken \in Nat /\ given \in Nat
        /\ payment \in Payments
        /\ taken <= given /\ given <= taken
    BY <2>1 DEF IndInv, Shape, Covered, Locked, CancelEnd
  <2>3. taken' = taken /\ given' = given
    BY <2>1 DEF CancelEnd
  <2>4. taken' = given'
    BY <2>2, <2>3
  <2>5. session' \notin Open
    BY <2>1 DEF CancelEnd, Open
  <2>6. payment'.amount > 0 => payment'.canceled \/ taken' > 0
    <3>1. payment' = [payment EXCEPT !.canceled = @ \/ Releasable]
      BY <2>1 DEF CancelEnd
    <3>2. /\ payment'.amount = payment.amount
          /\ payment'.canceled = (payment.canceled \/ Releasable)
      BY <3>1, <2>2
    <3>3. CASE Releasable
      BY <3>2, <3>3
    <3>4. CASE ~Releasable
      <4>1. payment.amount > 0 => payment.canceled \/ taken # 0
        BY <3>4 DEF Releasable
      <4>2. payment'.canceled = payment.canceled
        BY <3>2, <3>4, <2>2 DEF Answers, Payments, Ledgers, Transactions
      <4> QED
        BY <4>1, <4>2, <3>2, <2>2, <2>3
    <3> QED
      BY <3>3, <3>4
  <2> QED
    BY <2>4, <2>5, <2>6
<1> QED
  BY <1>1, PaymentInvariance, PTL DEF Spec, CancelReturns

\* Capture by capture, a payout line says what a capture of something earned,
\* gives back no more, and all of them come to what the shop holds.
THEOREM SharesInvariance == Spec => []SharesInv
<1>1. Init => SharesInv
  BY SharesInit
<1>2. IndInv /\ SharesInv /\ [Next]_vars => SharesInv'
  BY SharesNext
<1> QED
  BY <1>1, <1>2, PaymentInvariance, PTL DEF Spec

\* Whatever is refunded, in whatever pieces and at whatever fees the captures
\* earned, is taken off the captures it came from, no capture gives back more
\* than it earned, and what is left is what the shop still holds: the rounding
\* of a share neither makes money nor loses it (record_earning,
\* record_reversal, split).
THEOREM SharesAlwaysAddUp == Spec => []SharesAddUp
<1>1. SharesInv => SharesAddUp
  BY DEF SharesInv
<1> QED
  BY <1>1, SharesInvariance, PTL

\* No payout line earns or gives back less than nothing, whichever way its
\* shares are rounded.
THEOREM PaymentTypes == Spec => []TypeOK
<1>1. IndInv /\ SharesInv => TypeOK
  BY DEF IndInv, SharesInv, TypeOK
<1> QED
  BY <1>1, PaymentInvariance, SharesInvariance, PTL
=============================================================================

--------------------------- MODULE CheckoutProofs ---------------------------
(***************************************************************************)
(* Proofs about Checkout, for every number of carts, every limit and any   *)
(* cancellation, refund and change of a cart while a checkout runs: what   *)
(* the counters say of the uses that stand, that the uses are a pool of as *)
(* many as the limit says and one more for each stray, that an undone      *)
(* checkout leaves nothing behind, and that money is kept.                 *)
(*                                                                         *)
(* The invariant says what each stage has and has not done: for a cart     *)
(* left alone, what was claimed is what the order was given, and a use is  *)
(* given back once; for any cart, a redemption is put back once.  A sum of *)
(* what was taken and a sum of what was given back stand on either side of *)
(* every counter, and a step moves one term of each.                       *)
(***************************************************************************)
EXTENDS Checkout, SumsProofs, FiniteSetTheorems, TLAPS

\* How far a checkout has come tells which rows it has.
Timely ==
    /\ \A c \in Carts : stage[c] = "open" =>
          /\ going[c] # "back"
          /\ going[c] = "on" => claimed[c] = 0 /\ back[c] = 0 /\ backed[c] = 0
          /\ claimed[c] = 0 \/ back[c] > 0
    /\ \A c \in Carts : going[c] = "over" => stage[c] \in {"open", "placed"}
    /\ \A c \in Carts : stage[c] = "placed" => going[c] # "on"
    /\ \A c \in Carts : order[c] = "none" <=> stage[c] \in {"open", "claimed"}

\* A cart left alone: its order was given what was claimed for it, and its use
\* comes back once, at the end of its checkout or after it.
Alike ==
    \A c \in Carts \ touched :
        /\ stage[c] = "claimed" /\ going[c] = "on" => gives[c] = claimed[c]
        /\ order[c] # "none" => gave[c] = claimed[c]
        /\ going[c] # "over" => order[c] # "canceled" /\ credited[c] = 0
        /\ going[c] # "over" \/ order[c] = "pending" => back[c] = 0
        /\ \/ back[c] = 0 /\ backed[c] = 0
           \/ claimed[c] # 0 /\ back[c] = 1 /\ backed[c] = charged(c)

\* Staff refunded to an instrument what its row says; on the one the cart paid
\* with there is besides what was put back, all of it or none, and all of it once
\* the step was undone, unless the refund came first.
Owed ==
    /\ \A c \in Carts : \A i \in Instruments :
          i # PaysWith[c] => refunds[c][i] = Refunded(c, i)
    /\ \A c \in Carts : Pays(c) =>
         /\ Kept(c) \/ PutBack(c)
         /\ going[c] = "on" => Kept(c)
         /\ going[c] = "on" /\ stage[c] \in {"open", "claimed", "ordered"} => spent[c] = 0
         /\ stage[c] = "placed" => Kept(c)
         /\ stage[c] \in {"open", "claimed", "ordered"} =>
               PutBack(c) \/ (c \in touched /\ toAccount(c) > 0)

IndInv ==
    /\ TypeOK
    /\ Timely
    /\ Alike
    /\ Owed

\* What c's checkout, or somebody about it, may do.
Moves(c) ==
    Step(c) \/ Refuse(c) \/ Cancel(c) \/ Reprice(c) \/ RefundToCredit(c)

-----------------------------------------------------------------------------
\* How much RedeemCredit means to take is one of three numbers.
LEMMA LeastOfThree ==
    ASSUME NEW x \in Nat, NEW y \in Nat, NEW z \in Nat
    PROVE  Least({x, y, z}) \in {x, y, z}
<1>1. \E n \in {x, y, z} : \A m \in {x, y, z} : n <= m
  <2>1. CASE x <= y /\ x <= z
    BY <2>1
  <2>2. CASE y <= x /\ y <= z
    BY <2>2
  <2>3. CASE z <= x /\ z <= y
    BY <2>3
  <2>. QED
    BY <2>1, <2>2, <2>3
<1>. QED
  BY <1>1 DEF Least

\* A counter or a balance moved to a natural number.
LEMMA Updated ==
    ASSUME NEW S, NEW f \in [S -> Nat], NEW x, NEW v, x \in S => v \in Nat
    PROVE  [f EXCEPT ![x] = v] \in [S -> Nat]
OBVIOUS

\* What a budget is charged is a number of uses or of money.
LEMMA ChargeIsNat ==
    ASSUME NEW amount \in Nat
    PROVE  Charge(amount) \in Nat
BY DEF Charge

LEMMA ClampIsNat ==
    ASSUME NEW n \in Int
    PROVE  AtLeast0(n) \in Nat
BY DEF AtLeast0

\* What is given back leaves numbers, and every one of them in its place.
LEMMA ReleaseTypes ==
    ASSUME TypeOK, NEW c \in Carts, NEW amount \in Nat, release(c, amount)
    PROVE  /\ used' \in Nat /\ mine' \in [Customers -> Nat]
           /\ budget' \in [Attributes -> Nat]
           /\ back' \in [Carts -> Nat] /\ backed' \in [Carts -> Nat]
<1>1. Charge(amount) \in Nat
  BY ChargeIsNat
<1>2. used' \in Nat
  BY ClampIsNat DEF TypeOK, release
<1>3. mine' \in [Customers -> Nat]
  <2>1. CASE Owner[c] = Guest
    BY <2>1 DEF TypeOK, release
  <2>2. CASE Owner[c] # Guest
    <3>1. Owner[c] \in Customers
      BY <2>2, CheckoutAssumption
    <3>2. AtLeast0(mine[Owner[c]] - 1) \in Nat
      BY <3>1, ClampIsNat DEF TypeOK
    <3>3. [mine EXCEPT ![Owner[c]] = AtLeast0(@ - 1)] \in [Customers -> Nat]
      BY <3>2, Updated DEF TypeOK
    <3>. QED
      BY <2>2, <3>3 DEF release
  <2>. QED
    BY <2>1, <2>2
<1>4. budget' \in [Attributes -> Nat]
  <2>1. budget[attribute(c)] \in Nat
    BY DEF TypeOK, Attributes
  <2>2. AtLeast0(budget[attribute(c)] - Charge(amount)) \in Nat
    BY <1>1, <2>1, ClampIsNat
  <2>3. [budget EXCEPT ![attribute(c)] = AtLeast0(@ - Charge(amount))] \in [Attributes -> Nat]
    BY <2>2, Updated DEF TypeOK
  <2>. QED
    BY <2>3 DEF release
<1>5. back' \in [Carts -> Nat]
  <2>1. back' = [back EXCEPT ![c] = @ + 1] /\ back[c] + 1 \in Nat
    BY DEF TypeOK, release
  <2>. QED
    BY <2>1, Updated DEF TypeOK
<1>6. backed' \in [Carts -> Nat]
  <2>1. backed' = [backed EXCEPT ![c] = @ + Charge(amount)] /\ backed[c] + Charge(amount) \in Nat
    BY <1>1 DEF TypeOK, release
  <2>. QED
    BY <2>1, Updated DEF TypeOK
<1>. QED
  BY <1>2, <1>3, <1>4, <1>5, <1>6

\* Every step keeps the types.
LEMMA TypeStep ==
    ASSUME TypeOK, NEW c \in Carts, Moves(c)
    PROVE  TypeOK'
<1>1. CASE ClaimPromotions(c)
  <2>1. Charge(gives[c]) \in Nat
    BY CheckoutAssumption, ChargeIsNat DEF TypeOK
  <2>2. used' \in Nat
    BY <1>1, ClampIsNat DEF TypeOK, ClaimPromotions, take, pool
  <2>3. mine' \in [Customers -> Nat]
    <3>1. CASE Owner[c] = Guest
      BY <1>1, <3>1, CheckoutAssumption DEF TypeOK, ClaimPromotions, take, pool
    <3>2. CASE Owner[c] \in Customers
      <4>1. mine[Owner[c]] \in Nat
        BY <3>2 DEF TypeOK
      <4>2. mine[Owner[c]] + 1 \in Nat
        BY <4>1, ClampIsNat
      <4>3. Owner[c] # Guest
        BY <3>2, CheckoutAssumption
      <4>4. mine' \in {mine, [mine EXCEPT ![Owner[c]] = mine[Owner[c]] + 1]}
        BY <1>1, <4>3 DEF ClaimPromotions, take, pool
      <4>5. [mine EXCEPT ![Owner[c]] = mine[Owner[c]] + 1] \in [Customers -> Nat]
        BY <4>2, Updated DEF TypeOK
      <4>. QED
        BY <4>4, <4>5 DEF TypeOK
    <3>. QED
      BY <3>1, <3>2, CheckoutAssumption
  <2>4. budget' \in [Attributes -> Nat]
    <3>1. budget[attribute(c)] \in Nat
      BY DEF TypeOK, Attributes
    <3>2. budget[attribute(c)] + Charge(gives[c]) \in Nat
      BY <2>1, <3>1, ClampIsNat
    <3>3. budget' \in {budget, [budget EXCEPT ![attribute(c)] = budget[attribute(c)] + Charge(gives[c])]}
      BY <1>1 DEF ClaimPromotions, take, pool
    <3>. QED
      <4>1. [budget EXCEPT ![attribute(c)] = budget[attribute(c)] + Charge(gives[c])] \in [Attributes -> Nat]
        BY <3>2, Updated DEF TypeOK
      <4>. QED
        BY <3>3, <4>1 DEF TypeOK
  <2>. QED
    BY <1>1, <2>2, <2>3, <2>4 DEF TypeOK, Stages, ClaimPromotions, take, Reach, On, vars, sale, pool, orders, given, credit
<1>2. CASE ClaimRefused(c)
  BY <1>2, CheckoutAssumption DEF TypeOK, Stages, ClaimRefused, Go, On, vars, sale, pool, orders, given, credit
<1>3. CASE CreateOrder(c)
  BY <1>3, CheckoutAssumption DEF TypeOK, Stages, CreateOrder, Reach, On, vars, sale, pool, orders, given, credit
<1>4. CASE RedeemRead(c)
  <2>1. balance[PaysWith[c]] \in Nat
    BY <1>4, CheckoutAssumption DEF TypeOK, RedeemRead
  <2>2. Least({Wanted, Due, balance[PaysWith[c]]}) \in Nat
    <3>1. Wanted \in Nat /\ Due \in Nat
      BY CheckoutAssumption
    <3>. QED
      BY <2>1, <3>1, LeastOfThree
  <2>. QED
    BY <1>4, <2>2 DEF TypeOK, RedeemRead, vars, sale, pool, orders, given
<1>5. CASE RedeemSkipped(c)
  BY <1>5, CheckoutAssumption DEF TypeOK, Stages, RedeemSkipped, Reach, On, vars, sale, pool, orders, given, credit
<1>6. CASE RedeemTake(c)
  <2>1. PaysWith[c] \in Instruments => balance[PaysWith[c]] - seen[c] \in Nat
    BY <1>6 DEF TypeOK, RedeemTake, Enough
  <2>2. balance' \in [Instruments -> Nat]
    BY <1>6, <2>1, Updated DEF TypeOK, RedeemTake
  <2>. QED
    BY <1>6, <2>2 DEF TypeOK, Stages, RedeemTake, Reach, sale, pool, orders, given
<1>7. CASE RedeemAgain(c)
  BY <1>7, CheckoutAssumption DEF TypeOK, Stages, RedeemAgain, On, vars, sale, pool, orders, given, credit
<1>8. CASE Complete(c)
  BY <1>8, CheckoutAssumption DEF TypeOK, Stages, Complete, Reach, Go, On, vars, sale, pool, orders, given, credit
<1>9. CASE UndoComplete(c)
  BY <1>9, CheckoutAssumption DEF TypeOK, Stages, UndoComplete, Reach, Back, vars, sale, pool, orders, given, credit
<1>10. CASE RestoreCredit(c)
  <2>0. \/ /\ balance' = [balance EXCEPT ![PaysWith[c]] = @ + spent[c]]
           /\ refunds' = [refunds EXCEPT ![c][PaysWith[c]] = @ + spent[c]]
        \/ balance' = balance /\ refunds' = refunds
    BY <1>10 DEF RestoreCredit
  <2>1. balance' \in [Instruments -> Nat]
    <3>1. PaysWith[c] \in Instruments => balance[PaysWith[c]] + spent[c] \in Nat
      BY DEF TypeOK
    <3>2. [balance EXCEPT ![PaysWith[c]] = @ + spent[c]] \in [Instruments -> Nat]
      BY <3>1, Updated DEF TypeOK
    <3>. QED
      BY <2>0, <3>2 DEF TypeOK
  <2>2. refunds' \in [Carts -> [Instruments -> Nat]]
    <3>1. PaysWith[c] \in Instruments => refunds[c][PaysWith[c]] + spent[c] \in Nat
      BY DEF TypeOK
    <3>2. [refunds[c] EXCEPT ![PaysWith[c]] = @ + spent[c]] \in [Instruments -> Nat]
      BY <3>1, Updated DEF TypeOK
    <3>. QED
      BY <2>0, <3>2 DEF TypeOK
  <2>3. replays' \in 0 .. MaxReplays
    BY <1>10, CheckoutAssumption DEF TypeOK, RestoreCredit
  <2>4. stage' \in [Carts -> Stages]
    BY <1>10 DEF TypeOK, Stages, RestoreCredit, Reach
  <2>. QED
    BY <1>10, <2>1, <2>2, <2>3, <2>4 DEF TypeOK, RestoreCredit, sale, pool, orders, given
<1>11. CASE EraseOrder(c)
  BY <1>11, CheckoutAssumption DEF TypeOK, Stages, EraseOrder, Reach, Back, vars, sale, pool, orders, given, credit
<1>12. CASE ReleaseClaim(c)
  <2>1. /\ used' \in Nat /\ mine' \in [Customers -> Nat]
        /\ budget' \in [Attributes -> Nat]
        /\ back' \in [Carts -> Nat] /\ backed' \in [Carts -> Nat]
    <3>1. CASE claimed[c] = 0
      BY <1>12, <3>1 DEF TypeOK, ReleaseClaim, pool
    <3>2. CASE claimed[c] # 0
      <4>1. release(c, claimed[c]) /\ claimed[c] \in Nat
        BY <1>12, <3>2 DEF TypeOK, ReleaseClaim
      <4>. QED
        BY <4>1, ReleaseTypes
    <3>. QED
      BY <3>1, <3>2
  <2>2. stage' \in [Carts -> Stages] /\ going' \in [Carts -> {"on", "back", "over"}]
    BY <1>12 DEF TypeOK, Stages, ReleaseClaim, Reach, Go
  <2>3. touched' \subseteq Carts /\ replays' \in 0 .. MaxReplays
    BY <1>12, CheckoutAssumption DEF TypeOK, ReleaseClaim
  <2>. QED
    BY <1>12, <2>1, <2>2, <2>3 DEF TypeOK, ReleaseClaim, orders
<1>13. CASE Refuse(c)
  BY <1>13, CheckoutAssumption DEF TypeOK, Stages, Refuse, Go, On, vars, sale, pool, orders, given, credit
<1>14. CASE Cancel(c)
  <2>1. /\ used' \in Nat /\ mine' \in [Customers -> Nat]
        /\ budget' \in [Attributes -> Nat]
        /\ back' \in [Carts -> Nat] /\ backed' \in [Carts -> Nat]
    <3>1. CASE gave[c] = 0
      BY <1>14, <3>1 DEF TypeOK, Cancel, pool
    <3>2. CASE gave[c] # 0
      <4>1. release(c, gave[c]) /\ gave[c] \in Nat
        BY <1>14, <3>2 DEF TypeOK, Cancel
      <4>. QED
        BY <4>1, ReleaseTypes
    <3>. QED
      BY <3>1, <3>2
  <2>2. touched' \subseteq Carts
    BY <1>14 DEF TypeOK, Cancel, Touch
  <2>. QED
    BY <1>14, <2>1, <2>2 DEF TypeOK, Cancel, credit
<1>15. CASE Reprice(c)
  BY <1>15, CheckoutAssumption DEF TypeOK, Reprice, pool, orders, credit
<1>16. CASE RefundToCredit(c)
  <2>1. PICK amount \in 1 .. Due :
          /\ credited' = [credited EXCEPT ![c] = amount]
          /\ refunds' = [refunds EXCEPT ![c][Account[Owner[c]]] = @ + amount]
          /\ balance' = [balance EXCEPT ![Account[Owner[c]]] = @ + amount]
    BY <1>16 DEF RefundToCredit
  <2>2. amount \in Nat
    BY <2>1, CheckoutAssumption
  <2>3. Account[Owner[c]] \in Instruments
    BY <1>16, CheckoutAssumption DEF RefundToCredit
  <2>4. balance' \in [Instruments -> Nat]
    BY <2>1, <2>2, <2>3, Updated DEF TypeOK
  <2>5. credited' \in [Carts -> Nat]
    BY <2>1, <2>2, Updated DEF TypeOK
  <2>6. refunds' \in [Carts -> [Instruments -> Nat]]
    <3>1. [refunds[c] EXCEPT ![Account[Owner[c]]] = @ + amount] \in [Instruments -> Nat]
      BY <2>2, <2>3, Updated DEF TypeOK
    <3>. QED
      BY <2>1, <3>1 DEF TypeOK
  <2>. QED
    BY <1>16, <2>4, <2>5, <2>6 DEF TypeOK, RefundToCredit, Touch, pool, orders
<1>. QED
  BY <1>1, <1>2, <1>3, <1>4, <1>5, <1>6, <1>7, <1>8, <1>9, <1>10, <1>11, <1>12, <1>13, <1>14, <1>15, <1>16 DEF Moves, Step


-----------------------------------------------------------------------------
(***************************************************************************)
(* Each checkout on its own: its stages, its order, its redemption.        *)
(***************************************************************************)

\* A checkout and its order keep in step.
LEMMA TimelyStep ==
    ASSUME TypeOK, Timely, NEW c \in Carts, Moves(c)
    PROVE  Timely'
<1>1. CASE ClaimPromotions(c)
  <2>1. /\ stage[c] = "open" /\ going[c] = "on" /\ UNCHANGED <<going, order, back, backed>>
        /\ stage' = [stage EXCEPT ![c] = "claimed"]
        /\ claimed' = [claimed EXCEPT ![c] = gives[c]]
    BY <1>1 DEF ClaimPromotions, On, Reach, orders, given
  <2>. QED
    BY <2>1 DEF TypeOK, Timely
<1>2. CASE ClaimRefused(c)
  BY <1>2 DEF TypeOK, Timely, ClaimRefused, Go, On, sale, orders, given
<1>3. CASE CreateOrder(c)
  BY <1>3 DEF TypeOK, Timely, CreateOrder, Reach, given
<1>4. CASE RedeemSkipped(c) \/ RedeemTake(c)
  <2>1. /\ stage[c] = "ordered" /\ UNCHANGED <<going, claimed, order, back, backed>>
        /\ stage' = [stage EXCEPT ![c] = "redeemed"]
    BY <1>4 DEF RedeemSkipped, RedeemTake, Reach, sale, orders, given
  <2>. QED
    BY <2>1 DEF TypeOK, Timely
<1>5. CASE Complete(c)
  <2>1. /\ stage[c] = "redeemed" /\ UNCHANGED <<claimed, order, back, backed>>
        /\ stage' = [stage EXCEPT ![c] = "placed"]
        /\ \E way \in {"over", "back"} : going' = [going EXCEPT ![c] = way]
    BY <1>5 DEF Complete, Reach, Go, sale, orders, given
  <2>2. /\ stage'[c] = "placed" /\ going'[c] \in {"over", "back"}
        /\ \A d \in Carts \ {c} : stage'[d] = stage[d] /\ going'[d] = going[d]
    BY <2>1 DEF TypeOK
  <2>3. order[c] # "none"
    BY <2>1 DEF Timely
  <2>4. \A d \in Carts : stage'[d] = "open" =>
          /\ going'[d] # "back"
          /\ going'[d] = "on" => claimed'[d] = 0 /\ back'[d] = 0 /\ backed'[d] = 0
          /\ claimed'[d] = 0 \/ back'[d] > 0
    BY <2>1, <2>2 DEF Timely
  <2>5. \A d \in Carts : order'[d] = "none" <=> stage'[d] \in {"open", "claimed"}
    BY <2>1, <2>2, <2>3 DEF Timely
  <2>6. \A d \in Carts :
          /\ going'[d] = "over" => stage'[d] \in {"open", "placed"}
          /\ stage'[d] = "placed" => going'[d] # "on"
    BY <2>2 DEF Timely
  <2>. QED
    BY <2>4, <2>5, <2>6 DEF Timely
<1>6. CASE UndoComplete(c)
  <2>1. /\ stage[c] = "placed" /\ going[c] = "back"
        /\ stage' = [stage EXCEPT ![c] = "redeemed"]
        /\ UNCHANGED <<going, claimed, order, back, backed>>
    BY <1>6 DEF UndoComplete, Back, Reach, sale, orders, given
  <2>. QED
    BY <2>1 DEF TypeOK, Timely
<1>7. CASE RestoreCredit(c)
  <2>1. stage' \in {stage, [stage EXCEPT ![c] = "ordered"]} /\ stage[c] = "redeemed"
    BY <1>7 DEF RestoreCredit, Reach
  <2>2. UNCHANGED <<claimed, going, order, back, backed>>
    BY <1>7 DEF RestoreCredit, sale, orders, given
  <2>3. CASE stage' = stage
    BY <2>2, <2>3 DEF Timely
  <2>4. CASE stage' = [stage EXCEPT ![c] = "ordered"]
    BY <2>1, <2>2, <2>4 DEF TypeOK, Timely
  <2>. QED
    BY <2>1, <2>3, <2>4
<1>8. CASE EraseOrder(c)
  BY <1>8 DEF TypeOK, Timely, EraseOrder, Reach, given
<1>9. CASE ReleaseClaim(c)
  <2>1. /\ stage[c] = "claimed" /\ going[c] = "back"
        /\ UNCHANGED <<claimed, order>>
        /\ \/ stage' = [stage EXCEPT ![c] = "open"] /\ going' = [going EXCEPT ![c] = "over"]
           \/ stage' = stage /\ going' = going
    BY <1>9 DEF ReleaseClaim, Back, Reach, Go, orders
  <2>2. /\ \A d \in Carts \ {c} : back'[d] = back[d] /\ backed'[d] = backed[d]
        /\ claimed[c] = 0 \/ back'[c] > 0
    <3>1. CASE claimed[c] = 0
      BY <1>9, <3>1 DEF ReleaseClaim
    <3>2. CASE claimed[c] # 0
      BY <1>9, <3>2 DEF TypeOK, ReleaseClaim, release
    <3>. QED
      BY <3>1, <3>2
  <2>3. CASE stage' = stage /\ going' = going
    BY <2>1, <2>2, <2>3 DEF Timely
  <2>4. CASE stage' = [stage EXCEPT ![c] = "open"] /\ going' = [going EXCEPT ![c] = "over"]
    <3>1. /\ stage'[c] = "open" /\ going'[c] = "over"
          /\ \A d \in Carts \ {c} : stage'[d] = stage[d] /\ going'[d] = going[d]
      BY <2>4 DEF TypeOK
    <3>. QED
      BY <2>1, <2>2, <3>1 DEF Timely
  <2>. QED
    BY <2>1, <2>3, <2>4
<1>10. CASE Refuse(c)
  BY <1>10 DEF TypeOK, Timely, Refuse, Go, sale, orders, given
<1>11. CASE Cancel(c)
  <2>1. /\ UNCHANGED <<stage, going, claimed>> /\ order[c] = "pending"
        /\ order' = [order EXCEPT ![c] = "canceled"]
    BY <1>11 DEF Cancel
  <2>2. stage[c] # "open"
    BY <2>1 DEF TypeOK, Timely
  <2>3. \A d \in Carts \ {c} : back'[d] = back[d] /\ backed'[d] = backed[d]
    <3>1. CASE gave[c] = 0
      BY <1>11, <3>1 DEF Cancel
    <3>2. CASE gave[c] # 0
      BY <1>11, <3>2 DEF TypeOK, Cancel, release
    <3>. QED
      BY <3>1, <3>2
  <2>. QED
    BY <2>1, <2>2, <2>3 DEF TypeOK, Timely
<1>12. CASE UNCHANGED <<stage, going, claimed, order, back, backed>>
  BY <1>12 DEF Timely
<1>. QED
  BY <1>1, <1>2, <1>3, <1>4, <1>5, <1>6, <1>7, <1>8, <1>9, <1>10, <1>11, <1>12
     DEF Moves, Step, RedeemRead, RedeemAgain, Reprice, RefundToCredit, sale, orders, given

\* What happens to a cart left alone is what its checkout does to it, and a
\* cancellation once that is over.
LEMMA AlikeStep ==
    ASSUME TypeOK, Timely, Alike, NEW c \in Carts, Moves(c)
    PROVE  Alike'
<1>1. CASE ClaimPromotions(c)
  BY <1>1 DEF TypeOK, Timely, Alike, charged, ClaimPromotions, Reach, On, orders, given, credit
<1>2. CASE ClaimRefused(c)
  BY <1>2 DEF TypeOK, Timely, Alike, charged, ClaimRefused, Go, On, sale, orders, given, credit
<1>3. CASE CreateOrder(c)
  BY <1>3 DEF TypeOK, Timely, Alike, charged, CreateOrder, Reach, On, given, credit
<1>4. CASE RedeemSkipped(c)
  BY <1>4 DEF TypeOK, Timely, Alike, charged, RedeemSkipped, Reach, sale, orders, given, credit
<1>5. CASE RedeemTake(c)
  BY <1>5 DEF TypeOK, Timely, Alike, charged, RedeemTake, Reach, sale, orders, given
<1>6. CASE Complete(c)
  BY <1>6 DEF TypeOK, Timely, Alike, charged, Complete, Reach, Go, On, sale, orders, given, credit
<1>7. CASE UndoComplete(c)
  BY <1>7 DEF TypeOK, Timely, Alike, charged, UndoComplete, Reach, Back, sale, orders, given, credit
<1>8. CASE RestoreCredit(c)
  <2>1. /\ stage' \in {stage, [stage EXCEPT ![c] = "ordered"]}
        /\ UNCHANGED <<going, gives, claimed, order, gave, back, backed, touched, credited>>
    BY <1>8 DEF RestoreCredit, Reach, sale, orders, given
  <2>. QED
    BY <2>1 DEF TypeOK, Alike, charged
<1>9. CASE EraseOrder(c)
  BY <1>9 DEF TypeOK, Timely, Alike, charged, EraseOrder, Reach, Back, given, credit
<1>10. CASE ReleaseClaim(c)
  <2>1. /\ stage[c] = "claimed" /\ going[c] = "back"
        /\ UNCHANGED <<gives, claimed, order, gave, credited>>
    BY <1>10 DEF ReleaseClaim, Back, orders
  <2>2. \A d \in Carts \ {c} :
          /\ back'[d] = back[d] /\ backed'[d] = backed[d]
          /\ stage'[d] = stage[d] /\ going'[d] = going[d]
          /\ d \notin touched' => d \notin touched
    <3>1. \A d \in Carts \ {c} : back'[d] = back[d] /\ backed'[d] = backed[d]
      <4>1. CASE claimed[c] = 0
        BY <1>10, <4>1 DEF ReleaseClaim
      <4>2. CASE claimed[c] # 0
        BY <1>10, <4>2 DEF TypeOK, ReleaseClaim, release
      <4>. QED
        BY <4>1, <4>2
    <3>. QED
      BY <1>10, <3>1 DEF TypeOK, ReleaseClaim, Reach, Go
  <2>3. ASSUME c \notin touched'
        PROVE  /\ c \notin touched /\ stage'[c] = "open" /\ going'[c] = "over"
               /\ \/ back'[c] = 0 /\ backed'[c] = 0
                  \/ claimed[c] # 0 /\ back'[c] = 1 /\ backed'[c] = charged(c)
    <3>1. c \notin touched /\ stage'[c] = "open" /\ going'[c] = "over"
      BY <1>10, <2>3 DEF TypeOK, ReleaseClaim, Reach, Go
    <3>2. back[c] = 0 /\ backed[c] = 0
      BY <2>1, <3>1 DEF Alike
    <3>3. CASE claimed[c] = 0
      BY <1>10, <3>1, <3>2, <3>3 DEF ReleaseClaim
    <3>4. CASE claimed[c] # 0
      <4>1. back'[c] = back[c] + 1 /\ backed'[c] = backed[c] + Charge(claimed[c])
        BY <1>10, <3>4 DEF TypeOK, ReleaseClaim, release
      <4>2. Charge(claimed[c]) \in Nat
        BY ChargeIsNat DEF TypeOK
      <4>. QED
        BY <3>1, <3>2, <3>4, <4>1, <4>2 DEF charged
    <3>. QED
      BY <3>3, <3>4
  <2>4. order[c] = "none"
    BY <2>1 DEF Timely
  <2>. SUFFICES ASSUME NEW d \in Carts \ touched'
                PROVE  /\ stage'[d] = "claimed" /\ going'[d] = "on" => gives'[d] = claimed'[d]
                       /\ order'[d] # "none" => gave'[d] = claimed'[d]
                       /\ going'[d] # "over" => order'[d] # "canceled" /\ credited'[d] = 0
                       /\ going'[d] # "over" \/ order'[d] = "pending" => back'[d] = 0
                       /\ \/ back'[d] = 0 /\ backed'[d] = 0
                          \/ claimed'[d] # 0 /\ back'[d] = 1 /\ backed'[d] = charged(d)'
    BY DEF Alike
  <2>5. charged(d)' = charged(d)
    BY <2>1 DEF charged
  <2>6. CASE d = c
    BY <2>1, <2>3, <2>4, <2>5, <2>6
  <2>7. CASE d # c
    <3>1. d \in Carts \ touched
      BY <2>2, <2>7
    <3>2. /\ stage'[d] = stage[d] /\ going'[d] = going[d] /\ back'[d] = back[d]
          /\ backed'[d] = backed[d] /\ gives'[d] = gives[d] /\ claimed'[d] = claimed[d]
          /\ order'[d] = order[d] /\ gave'[d] = gave[d] /\ credited'[d] = credited[d]
      BY <2>1, <2>2, <2>7
    <3>. QED
      BY <2>5, <3>1, <3>2 DEF Alike
  <2>. QED
    BY <2>6, <2>7
<1>11. CASE Refuse(c)
  BY <1>11 DEF TypeOK, Timely, Alike, charged, Refuse, Go, On, sale, orders, given
<1>12. CASE Cancel(c)
  <2>1. /\ UNCHANGED <<stage, going, gives, claimed, gave, credited>> /\ order[c] = "pending"
        /\ order' = [order EXCEPT ![c] = "canceled"]
        /\ touched' = IF going[c] = "over" THEN touched ELSE touched \cup {c}
    BY <1>12 DEF Cancel, Touch, credit
  <2>2. \A d \in Carts \ {c} : back'[d] = back[d] /\ backed'[d] = backed[d]
    <3>1. CASE gave[c] = 0
      BY <1>12, <3>1 DEF Cancel
    <3>2. CASE gave[c] # 0
      BY <1>12, <3>2 DEF TypeOK, Cancel, release
    <3>. QED
      BY <3>1, <3>2
  <2>3. ASSUME c \notin touched'
        PROVE  /\ c \notin touched /\ going[c] = "over"
               /\ \/ back'[c] = 0 /\ backed'[c] = 0
                  \/ claimed[c] # 0 /\ back'[c] = 1 /\ backed'[c] = charged(c)
    <3>1. c \notin touched /\ going[c] = "over"
      BY <2>1, <2>3
    <3>2. back[c] = 0 /\ backed[c] = 0 /\ gave[c] = claimed[c]
      BY <2>1, <3>1 DEF Alike
    <3>3. CASE gave[c] = 0
      BY <1>12, <3>1, <3>2, <3>3 DEF Cancel
    <3>4. CASE gave[c] # 0
      <4>1. back'[c] = back[c] + 1 /\ backed'[c] = backed[c] + Charge(gave[c])
        BY <1>12, <3>4 DEF TypeOK, Cancel, release
      <4>2. Charge(gave[c]) \in Nat
        BY ChargeIsNat DEF TypeOK
      <4>. QED
        BY <3>1, <3>2, <3>4, <4>1, <4>2 DEF charged
    <3>. QED
      BY <3>3, <3>4
  <2>4. order'[c] = "canceled" /\ \A d \in Carts \ {c} : order'[d] = order[d]
    BY <2>1 DEF TypeOK
  <2>. QED
    BY <2>1, <2>2, <2>3, <2>4 DEF Alike, charged
<1>13. CASE Reprice(c)
  BY <1>13 DEF TypeOK, Timely, Alike, charged, Reprice, On, orders, credit
<1>14. CASE RefundToCredit(c)
  BY <1>14 DEF TypeOK, Timely, Alike, charged, RefundToCredit, Touch, orders
<1>15. CASE RedeemRead(c) \/ RedeemAgain(c)
  BY <1>15 DEF Alike, charged, RedeemRead, RedeemAgain, sale, orders, given
<1>. QED
  BY <1>1, <1>2, <1>3, <1>4, <1>5, <1>6, <1>7, <1>8, <1>9, <1>10, <1>11, <1>12, <1>13,
     <1>14, <1>15 DEF Moves, Step

\* A redemption is put back once, even by a compensation that runs twice.
LEMMA OwedStep ==
    ASSUME TypeOK, Timely, Alike, Owed, NEW c \in Carts, Moves(c)
    PROVE  Owed'
<1>1. CASE RestoreCredit(c)
  <2>1. /\ stage[c] = "redeemed" /\ going[c] = "back"
        /\ UNCHANGED <<going, spent, credited, touched>>
        /\ stage' \in {stage, [stage EXCEPT ![c] = "ordered"]}
    BY <1>1 DEF RestoreCredit, Back, Reach, sale, given
  <2>2. \A d \in Carts : \A i \in Instruments :
          d # c \/ i # PaysWith[c] => refunds'[d][i] = refunds[d][i]
    BY <1>1 DEF TypeOK, RestoreCredit
  <2>3. \A d \in Carts : \A i : Refunded(d, i)' = Refunded(d, i)
    BY <2>1 DEF Refunded
  <2>4. ASSUME Pays(c)
        PROVE  PutBack(c)' \/ (Kept(c)' /\ c \in touched /\ toAccount(c) > 0)
    <3>1. PaysWith[c] \in Instruments
      BY <2>4, CheckoutAssumption DEF Pays
    <3>2. spent[c] \in Nat /\ credited[c] \in Nat /\ refunds[c][PaysWith[c]] \in Nat
      BY <3>1 DEF TypeOK
    <3>3. toAccount(c) \in Nat /\ (toAccount(c) > 0 => credited[c] > 0)
      BY <3>2 DEF toAccount, Refunded
    <3>4. toAccount(c) > 0 => c \in touched
      BY <2>1, <3>3 DEF Alike
    <3>5. Kept(c) \/ PutBack(c)
      BY <2>4 DEF Owed
    <3>6. refunds'[c][PaysWith[c]] =
            IF spent[c] > 0 /\ refunds[c][PaysWith[c]] = 0
            THEN refunds[c][PaysWith[c]] + spent[c] ELSE refunds[c][PaysWith[c]]
      BY <1>1, <3>1 DEF TypeOK, RestoreCredit, Restorable
    <3>7. toAccount(c)' = toAccount(c) /\ spent'[c] = spent[c]
      BY <2>1, <2>3 DEF toAccount
    <3>. QED
      BY <3>2, <3>3, <3>4, <3>5, <3>6, <3>7 DEF Kept, PutBack
  <2>5. \A d \in Carts \ {c} : Pays(d) =>
          /\ (Kept(d)' <=> Kept(d)) /\ (PutBack(d)' <=> PutBack(d))
          /\ stage'[d] = stage[d] /\ toAccount(d)' = toAccount(d)
    <3>. SUFFICES ASSUME NEW d \in Carts \ {c}, Pays(d)
                  PROVE  /\ (Kept(d)' <=> Kept(d)) /\ (PutBack(d)' <=> PutBack(d))
                         /\ stage'[d] = stage[d] /\ toAccount(d)' = toAccount(d)
      OBVIOUS
    <3>1. PaysWith[d] \in Instruments
      BY CheckoutAssumption DEF Pays
    <3>2. refunds'[d][PaysWith[d]] = refunds[d][PaysWith[d]]
      BY <2>2, <3>1
    <3>3. toAccount(d)' = toAccount(d)
      BY <2>3 DEF toAccount
    <3>4. stage'[d] = stage[d]
      BY <2>1 DEF TypeOK
    <3>. QED
      BY <2>1, <3>2, <3>3, <3>4 DEF Kept, PutBack
  <2>6. stage'[c] \in {"redeemed", "ordered"} /\ toAccount(c)' = toAccount(c)
    BY <2>1, <2>3 DEF TypeOK, toAccount
  <2>7. \A d \in Carts : \A i \in Instruments :
          i # PaysWith[d] => refunds'[d][i] = Refunded(d, i)'
    BY <2>2, <2>3 DEF Owed
  <2>. QED
    BY <2>1, <2>4, <2>5, <2>6, <2>7 DEF Owed, Pays
<1>2. CASE RefundToCredit(c)
  <2>1. PICK amount \in 1 .. Due :
          /\ credited' = [credited EXCEPT ![c] = amount]
          /\ refunds' = [refunds EXCEPT ![c][Account[Owner[c]]] = @ + amount]
    BY <1>2 DEF RefundToCredit
  <2>2. /\ Owner[c] # Guest /\ credited[c] = 0 /\ order[c] # "none" /\ amount \in Nat /\ amount > 0
        /\ touched' = IF going[c] = "over" THEN touched ELSE touched \cup {c}
        /\ UNCHANGED <<stage, going, spent>>
    BY <1>2, <2>1, CheckoutAssumption DEF RefundToCredit, Touch
  <2>3. credited'[c] = amount /\ \A d \in Carts : d # c => credited'[d] = credited[d]
    BY <2>1 DEF TypeOK
  <2>4. \A d \in Carts : \A i \in Instruments :
          refunds'[d][i] = IF d = c /\ i = Account[Owner[c]] THEN refunds[d][i] + amount
                           ELSE refunds[d][i]
    BY <2>1 DEF TypeOK
  <2>5. \A d \in Carts : \A i \in Instruments :
          /\ Refunded(d, i)' = IF d = c /\ i = Account[Owner[c]] THEN Refunded(d, i) + amount
                               ELSE Refunded(d, i)
          /\ Refunded(c, i) = 0
    BY <2>2, <2>3 DEF Refunded
  <2>6. \A d \in Carts : \A i \in Instruments : refunds[d][i] \in Nat /\ Refunded(d, i) \in Nat
    BY DEF TypeOK, Refunded
  <2>7. ASSUME NEW d \in Carts, Pays(d)
        PROVE  /\ Kept(d)' <=> Kept(d)
               /\ PutBack(d)' <=> PutBack(d)
    <3>1. PaysWith[d] \in Instruments /\ spent[d] \in Nat
      BY <2>7, CheckoutAssumption DEF Pays, TypeOK
    <3>2. toAccount(d) = Refunded(d, PaysWith[d]) /\ toAccount(d)' = Refunded(d, PaysWith[d])'
      BY DEF toAccount
    <3>. QED
      BY <2>2, <2>4, <2>5, <2>6, <3>1, <3>2 DEF Kept, PutBack
  <2>8. ASSUME NEW d \in Carts, Pays(d), toAccount(d) > 0
        PROVE  toAccount(d)' > 0
    <3>1. PaysWith[d] \in Instruments
      BY <2>8, CheckoutAssumption DEF Pays
    <3>. QED
      BY <2>2, <2>5, <2>6, <2>8, <3>1 DEF toAccount
  <2>9. \A d \in Carts : \A i \in Instruments :
          i # PaysWith[d] => refunds'[d][i] = Refunded(d, i)'
    BY <2>2, <2>4, <2>5, <2>6 DEF Owed
  <2>10. \A d \in touched : d \in touched'
    BY <2>2
  <2>. QED
    BY <2>2, <2>7, <2>8, <2>9, <2>10 DEF Owed, Pays
<1>3. CASE RedeemTake(c)
  <2>1. /\ stage[c] = "ordered" /\ going[c] = "on"
        /\ stage' = [stage EXCEPT ![c] = "redeemed"]
        /\ spent' = [spent EXCEPT ![c] = seen[c]]
        /\ UNCHANGED <<going, refunds, credited, touched>>
    BY <1>3 DEF RedeemTake, On, Reach, sale, given
  <2>2. \A d \in Carts :
          /\ toAccount(d)' = toAccount(d) /\ (Kept(d)' <=> Kept(d))
          /\ d # c => (PutBack(d)' <=> PutBack(d))
    <3>1. \A d \in Carts : toAccount(d)' = toAccount(d)
      BY <2>1 DEF toAccount, Refunded
    <3>2. \A d \in Carts : d # c => spent'[d] = spent[d]
      BY <2>1 DEF TypeOK
    <3>. QED
      BY <2>1, <3>1, <3>2 DEF Kept, PutBack
  <2>3. \A d \in Carts : \A i \in Instruments : Refunded(d, i)' = Refunded(d, i)
    BY <2>1 DEF Refunded
  <2>4. /\ stage'[c] = "redeemed"
        /\ \A d \in Carts \ {c} : stage'[d] = stage[d] /\ spent'[d] = spent[d]
    BY <2>1 DEF TypeOK
  <2>5. \A d \in Carts : \A i \in Instruments :
          i # PaysWith[d] => refunds'[d][i] = Refunded(d, i)'
    BY <2>1, <2>3 DEF Owed
  <2>. QED
    <3>. SUFFICES ASSUME NEW d \in Carts, Pays(d)
                  PROVE  /\ Kept(d)' \/ PutBack(d)'
                         /\ going'[d] = "on" => Kept(d)'
                         /\ going'[d] = "on" /\ stage'[d] \in {"open", "claimed", "ordered"}
                                => spent'[d] = 0
                         /\ stage'[d] = "placed" => Kept(d)'
                         /\ stage'[d] \in {"open", "claimed", "ordered"} =>
                               PutBack(d)' \/ (d \in touched' /\ toAccount(d)' > 0)
      BY <2>5 DEF Owed, Pays
    <3>1. CASE d = c
      BY <2>1, <2>2, <2>4, <3>1 DEF Owed
    <3>2. CASE d # c
      BY <2>1, <2>2, <2>4, <3>2 DEF Owed
    <3>. QED
      BY <3>1, <3>2
<1>4. CASE \/ ClaimPromotions(c) \/ ClaimRefused(c) \/ CreateOrder(c) \/ RedeemRead(c)
           \/ RedeemSkipped(c) \/ RedeemAgain(c) \/ Complete(c) \/ UndoComplete(c)
           \/ EraseOrder(c) \/ ReleaseClaim(c) \/ Refuse(c) \/ Cancel(c) \/ Reprice(c)
  <2>1. refunds' = refunds /\ credited' = credited /\ spent' = spent
    BY <1>4 DEF ClaimPromotions, ClaimRefused, CreateOrder, RedeemRead, RedeemSkipped,
       RedeemAgain, Complete, UndoComplete, EraseOrder, ReleaseClaim, Refuse, Cancel,
       Reprice, credit
  <2>2. touched \subseteq touched'
    BY <1>4 DEF ClaimPromotions, ClaimRefused, CreateOrder, RedeemRead, RedeemSkipped,
       RedeemAgain, Complete, UndoComplete, EraseOrder, ReleaseClaim, Refuse, Cancel,
       Reprice, Touch, sale, given
  <2>3. \A d \in Carts : d # c => stage'[d] = stage[d] /\ going'[d] = going[d]
    BY <1>4 DEF TypeOK, ClaimPromotions, ClaimRefused, CreateOrder, RedeemRead,
       RedeemSkipped, RedeemAgain, Complete, UndoComplete, EraseOrder, ReleaseClaim,
       Refuse, Cancel, Reprice, Reach, Go
  <2>4. /\ going'[c] = "on" => going[c] = "on"
        /\ stage'[c] = "placed" => stage[c] = "placed" \/ going[c] = "on"
        /\ stage'[c] \in {"open", "claimed", "ordered"} =>
              stage[c] \in {"open", "claimed", "ordered"}
    BY <1>4 DEF TypeOK, ClaimPromotions, ClaimRefused, CreateOrder, RedeemRead,
       RedeemSkipped, RedeemAgain, Complete, UndoComplete, EraseOrder, ReleaseClaim,
       Refuse, Cancel, Reprice, Reach, Go, On, Back
  <2>5. \A d \in Carts :
          /\ toAccount(d)' = toAccount(d) /\ (Kept(d)' <=> Kept(d))
          /\ (PutBack(d)' <=> PutBack(d))
          /\ \A i \in Instruments : Refunded(d, i)' = Refunded(d, i)
    BY <2>1 DEF toAccount, Refunded, Kept, PutBack
  <2>. QED
    BY <2>1, <2>2, <2>3, <2>4, <2>5 DEF Owed, Pays
<1>. QED
  BY <1>1, <1>2, <1>3, <1>4 DEF Moves, Step

LEMMA IndInvInit ==
    Init => IndInv
<1>. SUFFICES ASSUME Init PROVE IndInv
  OBVIOUS
<1>1. TypeOK
  <2>1. Attributes = DOMAIN budget
    BY DEF Init
  <2>. QED
    BY <2>1, CheckoutAssumption DEF Init, TypeOK, Stages
<1>2. Timely
  BY DEF Init, Timely
<1>3. Alike
  BY DEF Init, Alike
<1>4. Owed
  BY CheckoutAssumption DEF Init, Owed, Pays, Kept, PutBack, toAccount, Refunded
<1>. QED
  BY <1>1, <1>2, <1>3, <1>4 DEF IndInv

LEMMA IndInvNext ==
    ASSUME IndInv, [Next]_vars
    PROVE  IndInv'
<1>1. CASE UNCHANGED vars
  BY <1>1 DEF IndInv, TypeOK, Timely, Alike, charged, Owed, Pays, Kept, PutBack, toAccount,
     Refunded, vars, sale, pool, orders, given, credit
<1>2. CASE Next
  <2>1. PICK c \in Carts : Moves(c)
    BY <1>2 DEF Next, Moves
  <2>2. TypeOK'
    BY <2>1, TypeStep DEF IndInv
  <2>3. Timely'
    BY <2>1, TimelyStep DEF IndInv
  <2>4. Alike'
    BY <2>1, AlikeStep DEF IndInv
  <2>5. Owed'
    BY <2>1, OwedStep DEF IndInv
  <2>. QED
    BY <2>2, <2>3, <2>4, <2>5 DEF IndInv
<1>. QED
  BY <1>1, <1>2

\* What every reachable state of every checkout looks like, whatever is cancelled,
\* refunded or changed while it runs: its stage, its order, its claim and its
\* redemption agree (ClaimPromotions, RedeemCredit and their compensations,
\* order::cancel, refund_to_credit).
THEOREM CheckoutInvariance == Spec => []IndInv
<1>. QED
  BY IndInvInit, IndInvNext, PTL DEF Spec

\* A cart left alone while its checkout runs takes its use and its charge whole,
\* and gets them back whole and once (release, erase, release_promotions).
THEOREM AlwaysGivesBackOnce == Spec => []GivesBackOnce
<1>1. IndInv => GivesBackOnce
  <2>. SUFFICES ASSUME IndInv, NEW c \in Carts \ touched
                PROVE  \/ Uses(c) = 0 /\ Net(c) = 0
                       \/ Uses(c) = 1 /\ Net(c) = charged(c)
    BY DEF GivesBackOnce
  <2>1. Charge(claimed[c]) \in Nat
    BY ChargeIsNat DEF IndInv, TypeOK
  <2>2. \/ back[c] = 0 /\ backed[c] = 0
        \/ claimed[c] # 0 /\ back[c] = 1 /\ backed[c] = charged(c)
    BY DEF IndInv, Alike
  <2>. QED
    BY <2>1, <2>2 DEF Uses, Net, took, charged
<1>. QED
  BY <1>1, CheckoutInvariance, PTL

\* A checkout that became no order keeps no use and no order, and each
\* instrument has back what was taken, unless staff refunded the order to that
\* balance while the checkout ran (the compensations of the checkout).
THEOREM AlwaysUndoneWhole == Spec => []UndoneWhole
<1>1. IndInv => UndoneWhole
  <2>. SUFFICES ASSUME IndInv, NEW c \in Carts, Undone(c)
                PROVE  /\ order[c] = "none" /\ Uses(c) <= 0
                       /\ Pays(c) =>
                             PutBack(c) \/ (c \in touched /\ toAccount(c) > 0 /\ Kept(c))
    BY DEF UndoneWhole
  <2>1. order[c] = "none" /\ (claimed[c] = 0 \/ back[c] > 0) /\ back[c] \in Nat
    BY DEF IndInv, TypeOK, Timely, Undone
  <2>2. Uses(c) <= 0
    BY <2>1 DEF Uses, took
  <2>3. Pays(c) => PutBack(c) \/ (c \in touched /\ toAccount(c) > 0 /\ Kept(c))
    BY DEF IndInv, Owed, Undone
  <2>. QED
    BY <2>1, <2>2, <2>3
<1>. QED
  BY <1>1, CheckoutInvariance, PTL

-----------------------------------------------------------------------------
(***************************************************************************)
(* The counters: what was taken on one side, what was given back on the    *)
(* other.                                                                  *)
(***************************************************************************)

\* What the carts of S are left with, term by term.
left(taken, gone) == [c \in Carts |-> AtLeast0(taken[c] - gone[c])]

LEMMA LeftIsNat ==
    ASSUME NEW taken \in [Carts -> Nat], NEW gone \in [Carts -> Nat]
    PROVE  left(taken, gone) \in [Carts -> Nat]
BY ClampIsNat DEF left

\* A sum over S moves by what one of its terms does.
LEMMA TermMoves ==
    ASSUME NEW S \in SUBSET Carts, NEW f \in [Carts -> Nat], NEW g \in [Carts -> Nat],
           NEW c \in Carts, \A d \in Carts \ {c} : g[d] = f[d]
    PROVE  /\ SumFunctionOnSet(g, S) = SumFunctionOnSet(f, S)
                  + IF c \in S THEN g[c] - f[c] ELSE 0
           /\ SumFunctionOnSet(f, S) \in Nat /\ SumFunctionOnSet(g, S) \in Nat
<1>1. IsFiniteSet(S)
  BY CheckoutAssumption, FS_Subset
<1>2. \A d \in S : f[d] \in Int /\ g[d] \in Int
  OBVIOUS
<1>3. SumFunctionOnSet(f, S) \in Nat /\ SumFunctionOnSet(g, S) \in Nat
  BY <1>1, OnSetNat
<1>4. CASE c \in S
  <2>1. SumFunctionOnSet(g, S) = SumFunctionOnSet(f, S) + g[c] - f[c]
    BY <1>1, <1>2, <1>4, OnSetMoves
  <2>2. g[c] \in Nat /\ f[c] \in Nat
    OBVIOUS
  <2>. QED
    BY <1>3, <1>4, <2>1, <2>2
<1>5. CASE c \notin S
  <2>1. \A d \in S : f[d] \in Int /\ g[d] = f[d]
    BY <1>2, <1>5
  <2>2. SumFunctionOnSet(g, S) = SumFunctionOnSet(f, S)
    BY <1>1, <2>1, OnSetSame
  <2>. QED
    BY <1>3, <1>5, <2>2
<1>. QED
  BY <1>4, <1>5

\* One that has taken nothing takes x.
LEMMA CountsTake ==
    ASSUME NEW S \in SUBSET Carts, NEW taken \in [Carts -> Nat], NEW gone \in [Carts -> Nat],
           NEW n \in Nat, NEW c \in Carts, NEW x \in Nat, taken[c] = 0, gone[c] = 0,
           Counts(n, taken, gone, S)
    PROVE  Counts(IF c \in S THEN n + x ELSE n, [taken EXCEPT ![c] = x], gone, S)
<1>. DEFINE more == [taken EXCEPT ![c] = x]
            f == left(taken, gone)
            g == left(more, gone)
<1>1. more \in [Carts -> Nat] /\ more[c] = x /\ \A d \in Carts \ {c} : more[d] = taken[d]
  OBVIOUS
<1>2. f \in [Carts -> Nat] /\ g \in [Carts -> Nat]
  BY <1>1, LeftIsNat
<1>3. f[c] = 0 /\ g[c] = x /\ \A d \in Carts \ {c} : g[d] = f[d]
  BY <1>1 DEF left, AtLeast0
<1>4. /\ SumFunctionOnSet(taken, S) <= n + SumFunctionOnSet(gone, S)
      /\ n <= SumFunctionOnSet(f, S)
  BY DEF Counts, left
<1>. HIDE DEF f, g, more
<1>5. /\ SumFunctionOnSet(more, S) = SumFunctionOnSet(taken, S)
             + IF c \in S THEN more[c] - taken[c] ELSE 0
      /\ SumFunctionOnSet(taken, S) \in Nat
  BY <1>1, TermMoves
<1>6. /\ SumFunctionOnSet(g, S) = SumFunctionOnSet(f, S) + IF c \in S THEN g[c] - f[c] ELSE 0
      /\ SumFunctionOnSet(f, S) \in Nat
  BY <1>2, <1>3, TermMoves
<1>7. SumFunctionOnSet(gone, S) \in Nat
  BY TermMoves
<1>8. LET m == IF c \in S THEN n + x ELSE n
      IN  /\ SumFunctionOnSet(more, S) <= m + SumFunctionOnSet(gone, S)
          /\ m <= SumFunctionOnSet(g, S)
  BY <1>1, <1>3, <1>4, <1>5, <1>6, <1>7
<1>. QED
  BY <1>8 DEF Counts, left, g, more

\* One gives x back, whether it had it or not, and the counter is clamped.
LEMMA CountsGive ==
    ASSUME NEW S \in SUBSET Carts, NEW taken \in [Carts -> Nat], NEW gone \in [Carts -> Nat],
           NEW n \in Nat, NEW c \in Carts, NEW x \in Nat,
           Counts(n, taken, gone, S)
    PROVE  Counts(IF c \in S THEN AtLeast0(n - x) ELSE n, taken,
                  [gone EXCEPT ![c] = @ + x], S)
<1>. DEFINE more == [gone EXCEPT ![c] = @ + x]
            f == left(taken, gone)
            g == left(taken, more)
<1>1. /\ more \in [Carts -> Nat] /\ more[c] = gone[c] + x
      /\ \A d \in Carts \ {c} : more[d] = gone[d]
  OBVIOUS
<1>2. f \in [Carts -> Nat] /\ g \in [Carts -> Nat]
  BY <1>1, LeftIsNat
<1>3. \A d \in Carts \ {c} : g[d] = f[d]
  BY <1>1 DEF left
<1>4. f[c] - x <= g[c]
  BY <1>1 DEF left, AtLeast0
<1>5. /\ SumFunctionOnSet(taken, S) <= n + SumFunctionOnSet(gone, S)
      /\ n <= SumFunctionOnSet(f, S)
  BY DEF Counts, left
<1>. HIDE DEF f, g, more
<1>6. /\ SumFunctionOnSet(more, S) = SumFunctionOnSet(gone, S)
             + IF c \in S THEN more[c] - gone[c] ELSE 0
      /\ SumFunctionOnSet(gone, S) \in Nat
  BY <1>1, TermMoves
<1>7. /\ SumFunctionOnSet(g, S) = SumFunctionOnSet(f, S) + IF c \in S THEN g[c] - f[c] ELSE 0
      /\ SumFunctionOnSet(f, S) \in Nat /\ SumFunctionOnSet(g, S) \in Nat
  BY <1>2, <1>3, TermMoves
<1>8. SumFunctionOnSet(taken, S) \in Nat
  BY TermMoves
<1>9. /\ f[c] \in Nat /\ g[c] \in Nat /\ gone[c] \in Nat
  BY <1>2
<1>10. CASE c \in S
  <2>1. SumFunctionOnSet(more, S) = SumFunctionOnSet(gone, S) + x
    BY <1>1, <1>6, <1>9, <1>10
  <2>2. SumFunctionOnSet(f, S) - x <= SumFunctionOnSet(g, S)
    BY <1>4, <1>7, <1>9, <1>10
  <2>3. /\ SumFunctionOnSet(taken, S) <= AtLeast0(n - x) + SumFunctionOnSet(more, S)
        /\ AtLeast0(n - x) <= SumFunctionOnSet(g, S)
    BY <1>5, <1>6, <1>7, <1>8, <2>1, <2>2 DEF AtLeast0
  <2>. QED
    BY <1>10, <2>3 DEF Counts, left, g, more
<1>11. CASE c \notin S
  <2>1. /\ SumFunctionOnSet(taken, S) <= n + SumFunctionOnSet(more, S)
        /\ n <= SumFunctionOnSet(g, S)
    BY <1>5, <1>6, <1>7, <1>11
  <2>. QED
    BY <1>11, <2>1 DEF Counts, left, g, more
<1>. QED
  BY <1>10, <1>11

\* What every counter says of the uses, and of the budgets.
Counted == UsesCounted /\ used <= UsageLimit /\ BudgetCounted

\* What the carts took, and what their budgets were charged, as functions.
takings == [c \in Carts |-> took(c)]
charges == [c \in Carts |-> charged(c)]

LEMMA TakingsAreNat ==
    ASSUME TypeOK
    PROVE  takings \in [Carts -> Nat] /\ charges \in [Carts -> Nat]
<1>1. \A c \in Carts : took(c) \in Nat /\ charged(c) \in Nat
  BY ChargeIsNat DEF TypeOK, took, charged
<1>. QED
  BY <1>1 DEF takings, charges

LEMMA CountedIs ==
    Counted <=>
      /\ Counts(used, takings, back, Carts)
      /\ \A k \in Customers : Counts(mine[k], takings, back, {c \in Carts : Owner[c] = k})
      /\ used <= UsageLimit
      /\ \A a \in Attributes :
           Counts(budget[a], charges, backed, {c \in Carts : attribute(c) = a})
BY DEF Counted, UsesCounted, BudgetCounted, takings, charges

\* A use is taken, and charged to the budget, for c, which had taken none.
LEMMA CountedTake ==
    ASSUME TypeOK, Counted, NEW c \in Carts, NEW x \in Nat \ {0},
           claimed[c] = 0, back[c] = 0, backed[c] = 0, used < UsageLimit,
           claimed' = [claimed EXCEPT ![c] = x], back' = back, backed' = backed,
           used' = used + 1,
           mine' = IF Owner[c] = Guest THEN mine ELSE [mine EXCEPT ![Owner[c]] = @ + 1],
           budget' = [budget EXCEPT ![attribute(c)] = @ + Charge(x)]
    PROVE  Counted'
<1>1. takings \in [Carts -> Nat] /\ charges \in [Carts -> Nat]
  BY TakingsAreNat
<1>2. Charge(x) \in Nat /\ back \in [Carts -> Nat] /\ backed \in [Carts -> Nat]
  BY ChargeIsNat DEF TypeOK
<1>3. takings[c] = 0 /\ charges[c] = 0
  BY DEF takings, charges, took, charged
<1>4. takings' = [takings EXCEPT ![c] = 1]
  BY DEF TypeOK, takings, took
<1>5. charges' = [charges EXCEPT ![c] = Charge(x)]
  BY DEF TypeOK, charges, charged
<1>6. Counts(used', takings', back', Carts)
  <2>1. used \in Nat /\ Counts(used, takings, back, Carts)
    BY CountedIs DEF TypeOK
  <2>2. Counts(IF c \in Carts THEN used + 1 ELSE used, [takings EXCEPT ![c] = 1], back, Carts)
    BY <1>1, <1>2, <1>3, <2>1, CountsTake
  <2>. QED
    BY <1>4, <2>2
<1>7. ASSUME NEW k \in Customers
      PROVE  Counts(mine'[k], takings', back', {d \in Carts : Owner[d] = k})
  <2>. DEFINE S == {d \in Carts : Owner[d] = k}
  <2>1. mine[k] \in Nat /\ Counts(mine[k], takings, back, S)
    BY CountedIs DEF TypeOK
  <2>2. Counts(IF c \in S THEN mine[k] + 1 ELSE mine[k], [takings EXCEPT ![c] = 1], back, S)
    <3>1. S \in SUBSET Carts
      OBVIOUS
    <3>. HIDE DEF S
    <3>. QED
      BY <1>1, <1>2, <1>3, <2>1, <3>1, CountsTake
  <2>3. mine'[k] = IF c \in S THEN mine[k] + 1 ELSE mine[k]
    BY CheckoutAssumption DEF TypeOK
  <2>. QED
    BY <1>4, <2>2, <2>3
<1>8. ASSUME NEW a \in Attributes
      PROVE  Counts(budget'[a], charges', backed', {d \in Carts : attribute(d) = a})
  <2>. DEFINE S == {d \in Carts : attribute(d) = a}
  <2>1. budget[a] \in Nat /\ Counts(budget[a], charges, backed, S)
    BY CountedIs DEF TypeOK
  <2>2. Counts(IF c \in S THEN budget[a] + Charge(x) ELSE budget[a],
               [charges EXCEPT ![c] = Charge(x)], backed, S)
    <3>1. S \in SUBSET Carts
      OBVIOUS
    <3>. HIDE DEF S
    <3>. QED
      BY <1>1, <1>2, <1>3, <2>1, <3>1, CountsTake
  <2>3. budget'[a] = IF c \in S THEN budget[a] + Charge(x) ELSE budget[a]
    BY DEF TypeOK
  <2>. QED
    BY <1>5, <2>2, <2>3
<1>9. used' <= UsageLimit
  BY CheckoutAssumption DEF TypeOK
<1>. QED
  BY <1>6, <1>7, <1>8, <1>9 DEF Counted, UsesCounted, BudgetCounted, takings, charges

\* A use, and what was charged, is given back for c, whether it had them or not.
LEMMA CountedGive ==
    ASSUME TypeOK, Counted, NEW c \in Carts, NEW amount \in Nat,
           release(c, amount), claimed' = claimed
    PROVE  Counted'
<1>1. takings \in [Carts -> Nat] /\ charges \in [Carts -> Nat]
  BY TakingsAreNat
<1>2. Charge(amount) \in Nat /\ back \in [Carts -> Nat] /\ backed \in [Carts -> Nat]
  BY ChargeIsNat DEF TypeOK
<1>3. takings' = takings /\ charges' = charges
  BY DEF takings, charges, took, charged
<1>4. /\ back' = [back EXCEPT ![c] = @ + 1]
      /\ backed' = [backed EXCEPT ![c] = @ + Charge(amount)]
  BY DEF release
<1>5. Counts(used', takings', back', Carts)
  <2>1. used \in Nat /\ Counts(used, takings, back, Carts)
    BY CountedIs DEF TypeOK
  <2>2. Counts(IF c \in Carts THEN AtLeast0(used - 1) ELSE used, takings,
               [back EXCEPT ![c] = @ + 1], Carts)
    BY <1>1, <1>2, <2>1, CountsGive
  <2>. QED
    BY <1>3, <1>4, <2>2 DEF release
<1>6. ASSUME NEW k \in Customers
      PROVE  Counts(mine'[k], takings', back', {d \in Carts : Owner[d] = k})
  <2>. DEFINE S == {d \in Carts : Owner[d] = k}
  <2>1. mine[k] \in Nat /\ Counts(mine[k], takings, back, S)
    BY CountedIs DEF TypeOK
  <2>2. Counts(IF c \in S THEN AtLeast0(mine[k] - 1) ELSE mine[k], takings,
               [back EXCEPT ![c] = @ + 1], S)
    <3>1. S \in SUBSET Carts
      OBVIOUS
    <3>. HIDE DEF S
    <3>. QED
      BY <1>1, <1>2, <2>1, <3>1, CountsGive
  <2>3. mine'[k] = IF c \in S THEN AtLeast0(mine[k] - 1) ELSE mine[k]
    BY CheckoutAssumption DEF TypeOK, release
  <2>. QED
    BY <1>3, <1>4, <2>2, <2>3
<1>7. ASSUME NEW a \in Attributes
      PROVE  Counts(budget'[a], charges', backed', {d \in Carts : attribute(d) = a})
  <2>. DEFINE S == {d \in Carts : attribute(d) = a}
  <2>1. budget[a] \in Nat /\ Counts(budget[a], charges, backed, S)
    BY CountedIs DEF TypeOK
  <2>2. Counts(IF c \in S THEN AtLeast0(budget[a] - Charge(amount)) ELSE budget[a], charges,
               [backed EXCEPT ![c] = @ + Charge(amount)], S)
    <3>1. S \in SUBSET Carts
      OBVIOUS
    <3>. HIDE DEF S
    <3>. QED
      BY <1>1, <1>2, <2>1, <3>1, CountsGive
  <2>3. budget'[a] = IF c \in S THEN AtLeast0(budget[a] - Charge(amount)) ELSE budget[a]
    BY DEF TypeOK, release
  <2>. QED
    BY <1>3, <1>4, <2>2, <2>3
<1>8. used' <= UsageLimit
  BY CheckoutAssumption DEF TypeOK, Counted, release, AtLeast0
<1>. QED
  BY <1>5, <1>6, <1>7, <1>8 DEF Counted, UsesCounted, BudgetCounted, takings, charges

\* Any other step leaves the counters and what they count.
LEMMA CountedStay ==
    ASSUME Counted, UNCHANGED <<claimed, back, backed, used, mine, budget>>
    PROVE  Counted'
<1>1. takings' = takings /\ charges' = charges
  BY DEF takings, charges, took, charged
<1>. QED
  BY <1>1 DEF Counted, UsesCounted, BudgetCounted, takings, charges

\* What a step does to the uses of each cart, and to the counters.
LEMMA CountedStep ==
    ASSUME TypeOK, Timely, Counted, NEW c \in Carts, Moves(c)
    PROVE  /\ Counted'
           /\ \A d \in Carts \ {c} : Uses(d)' = Uses(d)
           /\ \/ Uses(c)' = Uses(c)
              \/ Uses(c) = 0 /\ Uses(c)' = 1 /\ used < UsageLimit
              \/ Uses(c)' = Uses(c) - 1
<1>1. CASE ClaimPromotions(c)
  <2>1. claimed[c] = 0 /\ back[c] = 0 /\ backed[c] = 0
    BY <1>1 DEF ClaimPromotions, On, Timely
  <2>2. claimed' = [claimed EXCEPT ![c] = gives[c]] /\ back' = back /\ backed' = backed
    BY <1>1 DEF ClaimPromotions, given
  <2>3. CASE gives[c] = 0
    <3>1. claimed' = claimed
      BY <2>1, <2>2, <2>3 DEF TypeOK
    <3>2. UNCHANGED <<used, mine, budget>>
      BY <1>1, <2>3 DEF ClaimPromotions, pool
    <3>3. \A d \in Carts : Uses(d)' = Uses(d)
      BY <2>2, <3>1 DEF Uses, took
    <3>. QED
      BY <2>2, <3>1, <3>2, <3>3, CountedStay
  <2>4. CASE gives[c] # 0
    <3>1. gives[c] \in Nat \ {0}
      BY <2>4 DEF TypeOK
    <3>2. /\ used < UsageLimit /\ used' = used + 1
          /\ mine' = IF Owner[c] = Guest THEN mine ELSE [mine EXCEPT ![Owner[c]] = @ + 1]
          /\ budget' = [budget EXCEPT ![attribute(c)] = @ + Charge(gives[c])]
      BY <1>1, <2>4 DEF ClaimPromotions, CanTake, UsesLeft, take
    <3>3. Counted'
      BY <2>1, <2>2, <3>1, <3>2, CountedTake
    <3>4. \A d \in Carts \ {c} : claimed'[d] = claimed[d]
      BY <2>2 DEF TypeOK
    <3>5. \A d \in Carts \ {c} : Uses(d)' = Uses(d)
      BY <2>2, <3>4 DEF Uses, took
    <3>6. claimed'[c] = gives[c]
      BY <2>2 DEF TypeOK
    <3>7. Uses(c) = 0 /\ Uses(c)' = 1
      BY <2>1, <2>2, <2>4, <3>6 DEF Uses, took
    <3>. QED
      BY <3>2, <3>3, <3>5, <3>7
  <2>. QED
    BY <2>3, <2>4
<1>2. ASSUME NEW amount \in Nat, release(c, amount), claimed' = claimed
      PROVE  /\ Counted'
             /\ \A d \in Carts \ {c} : Uses(d)' = Uses(d)
             /\ Uses(c)' = Uses(c) - 1
  <2>1. Counted'
    BY <1>2, CountedGive
  <2>2. back'[c] = back[c] + 1 /\ \A d \in Carts \ {c} : back'[d] = back[d]
    BY <1>2 DEF TypeOK, release
  <2>3. took(c) \in Nat /\ back[c] \in Nat
    BY DEF TypeOK, took
  <2>4. \A d \in Carts : took(d)' = took(d)
    BY <1>2 DEF took
  <2>. QED
    BY <2>1, <2>2, <2>3, <2>4 DEF Uses
<1>3. CASE UNCHANGED <<claimed, back, backed, used, mine, budget>>
  BY <1>3, CountedStay DEF Uses, took
<1>4. CASE ReleaseClaim(c)
  <2>1. claimed' = claimed /\ claimed[c] \in Nat
    BY <1>4 DEF TypeOK, ReleaseClaim
  <2>2. release(c, claimed[c]) \/ UNCHANGED <<back, backed, used, mine, budget>>
    BY <1>4 DEF ReleaseClaim, pool
  <2>. QED
    BY <1>2, <1>3, <2>1, <2>2
<1>5. CASE Cancel(c)
  <2>1. claimed' = claimed /\ gave[c] \in Nat
    BY <1>5 DEF TypeOK, Cancel
  <2>2. release(c, gave[c]) \/ UNCHANGED <<back, backed, used, mine, budget>>
    BY <1>5 DEF Cancel, pool
  <2>. QED
    BY <1>2, <1>3, <2>1, <2>2
<1>. QED
  BY <1>1, <1>3, <1>4, <1>5 DEF Moves, Step, ClaimRefused, CreateOrder, RedeemRead,
     RedeemSkipped, RedeemTake, RedeemAgain, Complete, UndoComplete, RestoreCredit,
     EraseOrder, Refuse, Reprice, RefundToCredit, sale, pool, orders, given, credit

LEMMA CountedInit ==
    Init => Counted
<1>. SUFFICES ASSUME Init PROVE Counted
  OBVIOUS
<1>1. IsFiniteSet(Carts)
  BY CheckoutAssumption
<1>2. \A c \in Carts : /\ takings[c] = 0 /\ charges[c] = 0 /\ back[c] = 0 /\ backed[c] = 0
                       /\ left(takings, back)[c] = 0 /\ left(charges, backed)[c] = 0
  BY DEF Init, takings, charges, took, charged, left, AtLeast0
<1>3. ASSUME NEW S \in SUBSET Carts
      PROVE  Counts(0, takings, back, S) /\ Counts(0, charges, backed, S)
  <2>1. IsFiniteSet(S)
    BY <1>1, FS_Subset
  <2>2. /\ SumFunctionOnSet(takings, S) = 0 /\ SumFunctionOnSet(back, S) = 0
        /\ SumFunctionOnSet(charges, S) = 0 /\ SumFunctionOnSet(backed, S) = 0
        /\ SumFunctionOnSet(left(takings, back), S) = 0
        /\ SumFunctionOnSet(left(charges, backed), S) = 0
    BY <1>2, <2>1, OnSetZero
  <2>. QED
    BY <2>2 DEF Counts, left
<1>4. /\ used = 0 /\ used <= UsageLimit
      /\ \A k \in Customers : mine[k] = 0
      /\ \A a \in Attributes : budget[a] = 0
  BY CheckoutAssumption DEF Init
<1>. QED
  BY <1>3, <1>4, CountedIs

LEMMA CountedNext ==
    ASSUME IndInv, Counted, [Next]_vars
    PROVE  Counted'
<1>1. CASE UNCHANGED vars
  BY <1>1, CountedStay DEF vars, sale, pool, given
<1>2. CASE Next
  <2>1. PICK c \in Carts : Moves(c)
    BY <1>2 DEF Next, Moves
  <2>. QED
    BY <2>1, CountedStep DEF IndInv
<1>. QED
  BY <1>1, <1>2

\* Every counter lies between what the carts have and what they took less all
\* that came back, whatever gives a use back and however often.
LEMMA CountedAlways == Spec => []Counted
<1>. QED
  BY CountedInit, CountedNext, CheckoutInvariance, PTL DEF Spec

\* The promotion's counter and each customer's are the uses that stand, and fall
\* short of them by no more than what came back and was not taken, for any carts
\* and any limits (claim, release, release_promotions).
THEOREM UsesAlwaysCounted == Spec => []UsesCounted
<1>1. Counted => UsesCounted
  BY DEF Counted
<1>. QED
  BY <1>1, CountedAlways, PTL

\* As many uses stand as there are units of left, and a use that stands is one.
LEMMA OnesAreMembers ==
    ASSUME NEW S, IsFiniteSet(S), NEW T \in SUBSET S, NEW m,
           \A x \in S : m[x] = IF x \in T THEN 1 ELSE 0
    PROVE  SumFunctionOnSet(m, S) = Cardinality(T)
<1>. DEFINE one == [x \in S |-> 1]
            F == {U \in SUBSET T : SumFunctionOnSet(one, U) = Cardinality(U)}
<1>1. IsFiniteSet(T)
  BY FS_Subset
<1>2. {} \in F
  BY OnSetEmpty, FS_EmptySet
<1>3. ASSUME NEW U \in SUBSET T, U # {}, \A x \in U : U \ {x} \in F
      PROVE  U \in F
  <2>1. PICK x \in U : TRUE
    BY <1>3
  <2>2. IsFiniteSet(U) /\ \A y \in U : one[y] \in Int
    BY <1>1, FS_Subset
  <2>3. SumFunctionOnSet(one, U) = one[x] + SumFunctionOnSet(one, U \ {x})
    BY <2>2, OnSetRemove
  <2>4. SumFunctionOnSet(one, U \ {x}) = Cardinality(U \ {x})
    BY <1>3
  <2>5. Cardinality(U \ {x}) = Cardinality(U) - 1 /\ Cardinality(U) \in Nat
    BY <2>2, FS_RemoveElement, FS_CardinalityType
  <2>. QED
    BY <2>3, <2>4, <2>5
<1>4. SUBSET T \subseteq F
  <2>. HIDE DEF F
  <2>. QED
    BY <1>1, <1>2, <1>3, Outwards
<1>5. SumFunctionOnSet(one, T) = SumFunctionOnSet(m, S)
  <2>1. \A x \in S : one[x] \in Int /\ m[x] = IF x \in T THEN one[x] ELSE 0
    OBVIOUS
  <2>. HIDE DEF one
  <2>. QED
    BY <2>1, OnSetMask
<1>. QED
  BY <1>4, <1>5

\* What came back for each cart that it had not taken.
astray == [c \in Carts |-> AtLeast0(-Uses(c))]

LEMMA UsesAre ==
    ASSUME TypeOK, NEW c \in Carts
    PROVE  /\ Uses(c) \in Int /\ Uses(c) <= 1 /\ Uses(c) = takings[c] - back[c]
           /\ takings[c] \in Nat /\ back[c] \in Nat
           /\ astray[c] \in Nat /\ astray[c] = IF Uses(c) < 0 THEN -Uses(c) ELSE 0
<1>1. takings[c] = took(c) /\ astray[c] = AtLeast0(-Uses(c))
  BY DEF takings, astray
<1>2. took(c) \in {0, 1} /\ back[c] \in Nat
  BY DEF TypeOK, took
<1>3. Uses(c) = took(c) - back[c]
  BY DEF Uses
<1>. QED
  BY <1>1, <1>2, <1>3 DEF AtLeast0

\* What was taken is what stands and what was given back, but for the strays.
LEMMA StandingAndStrays ==
    ASSUME TypeOK
    PROVE  /\ SumFunctionOnSet(takings, Carts) + Strays
                  = Cardinality(Standing) + SumFunctionOnSet(back, Carts)
           /\ Strays \in Nat /\ Cardinality(Standing) \in Nat
           /\ SumFunctionOnSet(takings, Carts) \in Nat /\ SumFunctionOnSet(back, Carts) \in Nat
<1>. DEFINE one == [c \in Carts |-> IF c \in Standing THEN 1 ELSE 0]
            all == [c \in Carts |-> takings[c] + astray[c]]
<1>1. IsFiniteSet(Carts) /\ Standing \in SUBSET Carts
  BY CheckoutAssumption DEF Standing
<1>2. \A c \in Carts : one[c] \in Nat /\ (one[c] = 1 <=> Uses(c) = 1) /\ one[c] \in {0, 1}
  BY DEF Standing
<1>3. \A c \in Carts : /\ takings[c] \in Nat /\ back[c] \in Nat /\ astray[c] \in Nat
                       /\ all[c] = takings[c] + astray[c]
  BY UsesAre
<1>4. \A c \in Carts : all[c] = one[c] + back[c]
  BY <1>2, <1>3, UsesAre
<1>5. SumFunctionOnSet(one, Carts) = Cardinality(Standing)
  BY <1>1, OnesAreMembers
<1>6. Strays = SumFunctionOnSet(astray, Carts)
  BY DEF Strays, astray
<1>. HIDE DEF one, all
<1>7. /\ SumFunctionOnSet(takings, Carts) \in Nat /\ SumFunctionOnSet(back, Carts) \in Nat
      /\ SumFunctionOnSet(astray, Carts) \in Nat /\ SumFunctionOnSet(one, Carts) \in Nat
  BY <1>1, <1>2, <1>3, OnSetNat
<1>8. SumFunctionOnSet(all, Carts)
        = SumFunctionOnSet(takings, Carts) + SumFunctionOnSet(astray, Carts)
  BY <1>1, <1>3, OnSetAdds
<1>9. SumFunctionOnSet(all, Carts)
        = SumFunctionOnSet(one, Carts) + SumFunctionOnSet(back, Carts)
  BY <1>1, <1>2, <1>3, <1>4, OnSetAdds
<1>. QED
  BY <1>5, <1>6, <1>7, <1>8, <1>9

\* The uses that stand are no more than the counter and the strays.
LEMMA StandingCounted ==
    ASSUME TypeOK, Counted
    PROVE  Cardinality(Standing) <= used + Strays
<1>1. SumFunctionOnSet(takings, Carts) <= used + SumFunctionOnSet(back, Carts)
  BY CountedIs DEF Counts
<1>. QED
  BY <1>1, StandingAndStrays DEF TypeOK

\* No more uses stand than the promotion's limit, and one more for each use that
\* came back and had not been taken.
THEOREM AlwaysWithinLimit == Spec => [](Cardinality(Standing) <= UsageLimit + Strays)
<1>1. IndInv /\ Counted => Cardinality(Standing) <= UsageLimit + Strays
  <2>. SUFFICES ASSUME IndInv, Counted
                PROVE  Cardinality(Standing) <= UsageLimit + Strays
    OBVIOUS
  <2>1. TypeOK
    BY DEF IndInv
  <2>2. used <= UsageLimit /\ used \in Nat
    BY <2>1 DEF Counted, TypeOK
  <2>. QED
    BY <2>1, <2>2, StandingCounted, StandingAndStrays, CheckoutAssumption
<1>. QED
  BY <1>1, CheckoutInvariance, CountedAlways, PTL

\* Where the uses of one cart move, so do who stands and what went astray.
LEMMA UsesMove ==
    ASSUME TypeOK, TypeOK', NEW c \in Carts, \A d \in Carts \ {c} : Uses(d)' = Uses(d)
    PROVE  /\ Uses(c)' = 1 => Standing' = Standing \cup {c}
           /\ Uses(c)' # 1 => Standing' = Standing \ {c}
           /\ Strays' = Strays + astray'[c] - astray[c]
<1>1. \A d \in Carts \ {c} : astray'[d] = astray[d]
  BY DEF astray
<1>2. astray \in [Carts -> Nat] /\ astray' \in [Carts -> Nat]
  <2>1. \A d \in Carts : AtLeast0(-Uses(d)) \in Nat /\ AtLeast0(-(Uses(d)')) \in Nat
    <3>. SUFFICES ASSUME NEW d \in Carts
                  PROVE  AtLeast0(-Uses(d)) \in Nat /\ AtLeast0(-(Uses(d)')) \in Nat
      OBVIOUS
    <3>1. Uses(d) \in Int /\ Uses(d)' \in Int
      BY DEF TypeOK, Uses, took
    <3>. QED
      BY <3>1, ClampIsNat
  <2>. QED
    BY <2>1 DEF astray
<1>3. Strays = SumFunctionOnSet(astray, Carts) /\ Strays' = SumFunctionOnSet(astray', Carts)
  BY DEF Strays, astray
<1>4. /\ SumFunctionOnSet(astray', Carts) = SumFunctionOnSet(astray, Carts)
             + IF c \in Carts THEN astray'[c] - astray[c] ELSE 0
      /\ SumFunctionOnSet(astray, Carts) \in Nat
  BY <1>1, <1>2, TermMoves
<1>5. astray[c] \in Nat /\ astray'[c] \in Nat
  BY <1>2
<1>6. Strays' = Strays + astray'[c] - astray[c]
  BY <1>3, <1>4, <1>5
<1>. QED
  BY <1>6 DEF Standing

\* Checkouts take and give back the uses of a promotion as a pool does: a holder
\* takes one that is left, or that went astray, and gives back the one it holds,
\* or one it does not, which is a stray.
THEOREM CheckoutsSharePool == Spec => IsPool
<1>1. Init => Promotion!Init
  <2>. SUFFICES ASSUME Init PROVE Standing = {} /\ Strays = 0
    BY DEF Promotion!Init
  <2>1. \A c \in Carts : Uses(c) = 0
    BY DEF Init, Uses, took
  <2>2. \A c \in Carts : astray[c] = 0
    BY <2>1 DEF astray, AtLeast0
  <2>3. Strays = SumFunctionOnSet(astray, Carts)
    BY DEF Strays, astray
  <2>4. Strays = 0
    BY <2>2, <2>3, OnSetZero, CheckoutAssumption
  <2>. QED
    BY <2>1, <2>4 DEF Standing
<1>2. ASSUME IndInv, IndInv', Counted, [Next]_vars
      PROVE  [Promotion!Next]_<<Standing, Strays>>
  <2>1. CASE UNCHANGED vars
    <3>1. UNCHANGED <<claimed, back>>
      BY <2>1 DEF vars, sale, given
    <3>2. Standing' = Standing /\ Strays' = Strays
      BY <3>1 DEF Standing, Strays, Uses, took
    <3>. QED
      BY <3>2
  <2>2. CASE Next
    <3>1. PICK c \in Carts : Moves(c)
      BY <2>2 DEF Next, Moves
    <3>2. TypeOK /\ TypeOK' /\ Timely
      BY <1>2 DEF IndInv
    <3>3. /\ \A d \in Carts \ {c} : Uses(d)' = Uses(d)
          /\ \/ Uses(c)' = Uses(c)
             \/ Uses(c) = 0 /\ Uses(c)' = 1 /\ used < UsageLimit
             \/ Uses(c)' = Uses(c) - 1
      BY <1>2, <3>1, <3>2, CountedStep
    <3>4. /\ Uses(c)' = 1 => Standing' = Standing \cup {c}
          /\ Uses(c)' # 1 => Standing' = Standing \ {c}
          /\ Strays' = Strays + astray'[c] - astray[c]
      BY <3>2, <3>3, UsesMove
    <3>5. /\ Uses(c) \in Int /\ Uses(c) <= 1
          /\ astray[c] = (IF Uses(c) < 0 THEN -Uses(c) ELSE 0)
          /\ Strays \in Nat /\ (c \in Standing <=> Uses(c) = 1)
      BY <3>2, UsesAre, StandingAndStrays DEF Standing
    <3>6. astray'[c] = IF Uses(c)' < 0 THEN -(Uses(c)') ELSE 0
      BY <3>2 DEF TypeOK, Uses, took, astray, AtLeast0
    <3>7. CASE Uses(c)' = Uses(c)
      <4>1. Standing' = Standing /\ Strays' = Strays
        <5>1. Strays' = Strays
          BY <3>4, <3>5, <3>6, <3>7
        <5>2. CASE Uses(c) = 1
          BY <3>4, <3>5, <3>7, <5>1, <5>2
        <5>3. CASE Uses(c) # 1
          <6>1. Standing' = Standing \ {c} /\ c \notin Standing
            BY <3>4, <3>5, <3>7, <5>3
          <6>. QED
            BY <5>1, <6>1
        <5>. QED
          BY <5>2, <5>3
      <4>. QED
        BY <4>1
    <3>8. CASE Uses(c) = 0 /\ Uses(c)' = 1 /\ used < UsageLimit
      <4>1. c \notin Standing /\ Standing' = Standing \cup {c} /\ Strays' = Strays
        BY <3>4, <3>5, <3>6, <3>8
      <4>2. Cardinality(Standing) < UsageLimit + Strays
        BY <1>2, <3>2, <3>8, StandingCounted, StandingAndStrays, CheckoutAssumption DEF TypeOK
      <4>3. Promotion!Cardinality(Standing) = Cardinality(Standing)
        BY Zenon DEF Promotion!Cardinality, Cardinality
      <4>4. Promotion!Take(c)
        BY <4>1, <4>2, <4>3 DEF Promotion!Take
      <4>. QED
        BY <4>4 DEF Promotion!Next
    <3>9. CASE Uses(c)' = Uses(c) - 1 /\ Uses(c) = 1
      <4>1. c \in Standing /\ Standing' = Standing \ {c} /\ Strays' = Strays
        BY <3>4, <3>5, <3>6, <3>9
      <4>2. Promotion!GiveBack(c)
        BY <4>1 DEF Promotion!GiveBack
      <4>. QED
        BY <4>2 DEF Promotion!Next
    <3>10. CASE Uses(c)' = Uses(c) - 1 /\ Uses(c) # 1
      <4>1. c \notin Standing /\ Standing' = Standing /\ Strays' = Strays + 1
        <5>1. c \notin Standing /\ Standing' = Standing \ {c}
          BY <3>4, <3>5, <3>10
        <5>2. Strays' = Strays + 1
          BY <3>4, <3>5, <3>6, <3>10
        <5>. QED
          BY <5>1, <5>2
      <4>2. Promotion!Stray(c)
        BY <4>1 DEF Promotion!Stray
      <4>. QED
        BY <4>2 DEF Promotion!Next
    <3>. QED
      BY <3>3, <3>7, <3>8, <3>9, <3>10
  <2>. QED
    BY <1>2, <2>1, <2>2
<1>. QED
  BY <1>1, <1>2, CheckoutInvariance, CountedAlways, PTL DEF Spec, IsPool, Promotion!Spec

-----------------------------------------------------------------------------
(***************************************************************************)
(* Money: an instrument row by row.                                        *)
(***************************************************************************)

\* All that was redeemed of i, and all that came back to it.
Took(i) == SumFunctionOnSet(spent, {c \in Carts : PaysWith[c] = i})
Put(i)  == SumFunctionOnSet([c \in Carts |-> refunds[c][i]], Carts)

BalanceKept == \A i \in Instruments : balance[i] = Opening[i] - Took(i) + Put(i)

\* One cart spends.
LEMMA TookMoves ==
    ASSUME TypeOK, TypeOK', NEW c \in Carts, NEW i \in Instruments,
           \A d \in Carts \ {c} : spent'[d] = spent[d]
    PROVE  /\ Took(i)' = Took(i) + IF PaysWith[c] = i THEN spent'[c] - spent[c] ELSE 0
           /\ Took(i) \in Int
<1>. DEFINE S == {d \in Carts : PaysWith[d] = i}
            f == spent
            g == spent'
<1>1. IsFiniteSet(S)
  BY CheckoutAssumption, FS_Subset
<1>2. \A d \in S : f[d] \in Int /\ g[d] \in Int
  BY DEF TypeOK
<1>3. \A d \in S \ {c} : g[d] = f[d]
  OBVIOUS
<1>4. Took(i) = SumFunctionOnSet(f, S) /\ Took(i)' = SumFunctionOnSet(g, S)
  BY DEF Took
<1>5. c \in S <=> PaysWith[c] = i
  OBVIOUS
<1>. HIDE DEF S, f, g
<1>6. SumFunctionOnSet(f, S) \in Int
  BY <1>1, <1>2, OnSetRemove
<1>7. CASE c \in S
  <2>1. SumFunctionOnSet(g, S) = SumFunctionOnSet(f, S) + g[c] - f[c]
    BY <1>1, <1>2, <1>3, <1>7, OnSetMoves
  <2>2. f[c] \in Int /\ g[c] \in Int
    BY <1>2, <1>7
  <2>3. Took(i)' = Took(i) + (g[c] - f[c])
    BY <1>4, <1>6, <2>1, <2>2
  <2>. QED
    BY <1>4, <1>5, <1>6, <1>7, <2>3 DEF f, g
<1>8. CASE c \notin S
  <2>1. \A d \in S : f[d] \in Int /\ g[d] = f[d]
    BY <1>2, <1>3, <1>8
  <2>2. SumFunctionOnSet(g, S) = SumFunctionOnSet(f, S)
    BY <1>1, <2>1, OnSetSame
  <2>. QED
    BY <1>4, <1>5, <1>6, <1>8, <2>2
<1>. QED
  BY <1>7, <1>8

\* One cart has a refund.
LEMMA PutMoves ==
    ASSUME TypeOK, TypeOK', NEW c \in Carts, NEW i \in Instruments,
           \A d \in Carts \ {c} : refunds'[d][i] = refunds[d][i]
    PROVE  /\ Put(i)' = Put(i) + refunds'[c][i] - refunds[c][i]
           /\ Put(i) \in Int
<1>. DEFINE f == [d \in Carts |-> refunds[d][i]]
            g == [d \in Carts |-> refunds'[d][i]]
<1>1. \A d \in Carts : f[d] \in Int /\ g[d] \in Int
  BY DEF TypeOK
<1>2. \A d \in Carts \ {c} : g[d] = f[d]
  OBVIOUS
<1>3. Put(i) = SumFunctionOnSet(f, Carts) /\ Put(i)' = SumFunctionOnSet(g, Carts)
  BY DEF Put
<1>4. f[c] = refunds[c][i] /\ g[c] = refunds'[c][i]
  OBVIOUS
<1>. HIDE DEF f, g
<1>5. IsFiniteSet(Carts)
  BY CheckoutAssumption
<1>6. SumFunctionOnSet(g, Carts) = SumFunctionOnSet(f, Carts) + g[c] - f[c]
  BY <1>1, <1>2, <1>5, OnSetMoves
<1>7. SumFunctionOnSet(f, Carts) \in Int
  BY <1>1, <1>5, OnSetRemove
<1>. QED
  BY <1>3, <1>4, <1>6, <1>7

LEMMA BalanceStep ==
    ASSUME IndInv, TypeOK', BalanceKept, NEW c \in Carts, Moves(c)
    PROVE  BalanceKept'
<1>0. TypeOK /\ Owed
  BY DEF IndInv
<1>1. CASE RedeemTake(c)
  <2>1. /\ stage[c] = "ordered" /\ going[c] = "on"
        /\ spent' = [spent EXCEPT ![c] = seen[c]]
        /\ balance' = [balance EXCEPT ![PaysWith[c]] = @ - seen[c]]
        /\ refunds' = refunds
    BY <1>1 DEF RedeemTake, On
  <2>. SUFFICES ASSUME NEW i \in Instruments
                PROVE  balance'[i] = Opening[i] - Took(i)' + Put(i)'
    BY DEF BalanceKept
  <2>2. \A d \in Carts \ {c} : spent'[d] = spent[d] /\ refunds'[d][i] = refunds[d][i]
    BY <1>0, <2>1 DEF TypeOK
  <2>3. /\ Took(i)' = Took(i) + IF PaysWith[c] = i THEN spent'[c] - spent[c] ELSE 0
        /\ Took(i) \in Int
    BY <1>0, <2>2, TookMoves
  <2>4. Put(i)' = Put(i) /\ Put(i) \in Int
    <3>1. Put(i)' = Put(i) + refunds'[c][i] - refunds[c][i] /\ Put(i) \in Int
      BY <1>0, <2>2, PutMoves
    <3>2. refunds'[c][i] = refunds[c][i] /\ refunds[c][i] \in Int
      BY <1>0, <2>1 DEF TypeOK
    <3>. QED
      BY <3>1, <3>2
  <2>5. PaysWith[c] = i => spent[c] = 0
    BY <1>0, <2>1, CheckoutAssumption DEF Owed, Pays
  <2>6. spent'[c] = seen[c] /\ seen[c] \in Nat /\ spent[c] \in Nat /\ balance[i] \in Nat
        /\ balance'[i] = IF PaysWith[c] = i THEN balance[i] - seen[c] ELSE balance[i]
    BY <1>0, <2>1 DEF TypeOK
  <2>7. balance[i] = Opening[i] - Took(i) + Put(i) /\ Opening[i] \in Int
    BY CheckoutAssumption DEF BalanceKept
  <2>. QED
    BY <2>3, <2>4, <2>5, <2>6, <2>7
<1>2. CASE RestoreCredit(c)
  <2>1. /\ spent' = spent
        /\ \/ /\ balance' = [balance EXCEPT ![PaysWith[c]] = @ + spent[c]]
              /\ refunds' = [refunds EXCEPT ![c][PaysWith[c]] = @ + spent[c]]
           \/ balance' = balance /\ refunds' = refunds
    BY <1>2 DEF RestoreCredit
  <2>. SUFFICES ASSUME NEW i \in Instruments
                PROVE  balance'[i] = Opening[i] - Took(i)' + Put(i)'
    BY DEF BalanceKept
  <2>2. \A d \in Carts \ {c} : refunds'[d][i] = refunds[d][i]
    BY <1>0, <2>1 DEF TypeOK
  <2>3. Put(i)' = Put(i) + refunds'[c][i] - refunds[c][i] /\ Put(i) \in Int
    BY <1>0, <2>2, PutMoves
  <2>4. Took(i)' = Took(i) /\ Took(i) \in Int
    <3>1. /\ Took(i)' = Took(i) + IF PaysWith[c] = i THEN spent'[c] - spent[c] ELSE 0
          /\ Took(i) \in Int
      BY <1>0, <2>1, TookMoves
    <3>2. spent'[c] - spent[c] = 0
      BY <1>0, <2>1 DEF TypeOK
    <3>. QED
      BY <3>1, <3>2
  <2>5. /\ spent[c] \in Nat /\ balance[i] \in Nat /\ refunds[c][i] \in Nat
        /\ \E n \in Nat : /\ balance'[i] = balance[i] + n
                          /\ refunds'[c][i] = refunds[c][i] + n
    <3>1. spent[c] \in Nat /\ balance[i] \in Nat /\ refunds[c][i] \in Nat
      BY <1>0 DEF TypeOK
    <3>2. CASE balance' = balance /\ refunds' = refunds
      <4>1. balance'[i] = balance[i] + 0 /\ refunds'[c][i] = refunds[c][i] + 0
        BY <3>1, <3>2
      <4>. QED
        BY <3>1, <4>1
    <3>3. CASE /\ balance' = [balance EXCEPT ![PaysWith[c]] = @ + spent[c]]
               /\ refunds' = [refunds EXCEPT ![c][PaysWith[c]] = @ + spent[c]]
      <4>1. CASE PaysWith[c] = i
        <5>1. /\ balance'[i] = balance[i] + spent[c]
              /\ refunds'[c][i] = refunds[c][i] + spent[c]
          BY <1>0, <3>3, <4>1 DEF TypeOK
        <5>. QED
          BY <3>1, <5>1
      <4>2. CASE PaysWith[c] # i
        <5>1. balance'[i] = balance[i] + 0 /\ refunds'[c][i] = refunds[c][i] + 0
          BY <1>0, <3>1, <3>3, <4>2 DEF TypeOK
        <5>. QED
          BY <3>1, <5>1
      <4>. QED
        BY <4>1, <4>2
    <3>. QED
      BY <2>1, <3>1, <3>2, <3>3
  <2>6. balance[i] = Opening[i] - Took(i) + Put(i) /\ Opening[i] \in Int
    BY CheckoutAssumption DEF BalanceKept
  <2>. QED
    BY <2>3, <2>4, <2>5, <2>6
<1>3. CASE RefundToCredit(c)
  <2>1. PICK amount \in 1 .. Due :
          /\ refunds' = [refunds EXCEPT ![c][Account[Owner[c]]] = @ + amount]
          /\ balance' = [balance EXCEPT ![Account[Owner[c]]] = @ + amount]
    BY <1>3 DEF RefundToCredit
  <2>2. spent' = spent /\ amount \in Nat
    BY <1>3, CheckoutAssumption DEF RefundToCredit
  <2>. SUFFICES ASSUME NEW i \in Instruments
                PROVE  balance'[i] = Opening[i] - Took(i)' + Put(i)'
    BY DEF BalanceKept
  <2>3. \A d \in Carts \ {c} : refunds'[d][i] = refunds[d][i]
    BY <1>0, <2>1 DEF TypeOK
  <2>4. Put(i)' = Put(i) + refunds'[c][i] - refunds[c][i] /\ Put(i) \in Int
    BY <1>0, <2>3, PutMoves
  <2>5. Took(i)' = Took(i) /\ Took(i) \in Int
    <3>1. /\ Took(i)' = Took(i) + IF PaysWith[c] = i THEN spent'[c] - spent[c] ELSE 0
          /\ Took(i) \in Int
      BY <1>0, <2>2, TookMoves
    <3>2. spent'[c] - spent[c] = 0
      BY <1>0, <2>2 DEF TypeOK
    <3>. QED
      BY <3>1, <3>2
  <2>6. balance[i] \in Nat /\ refunds[c][i] \in Nat
    BY <1>0 DEF TypeOK
  <2>7. /\ balance'[i] = IF i = Account[Owner[c]] THEN balance[i] + amount ELSE balance[i]
        /\ refunds'[c][i] = IF i = Account[Owner[c]] THEN refunds[c][i] + amount
                            ELSE refunds[c][i]
    BY <1>0, <2>1 DEF TypeOK
  <2>8. balance[i] = Opening[i] - Took(i) + Put(i) /\ Opening[i] \in Int
    BY CheckoutAssumption DEF BalanceKept
  <2>. QED
    BY <2>2, <2>4, <2>5, <2>6, <2>7, <2>8
<1>4. CASE balance' = balance /\ spent' = spent /\ refunds' = refunds
  BY <1>4 DEF BalanceKept, Took, Put
<1>. QED
  BY <1>1, <1>2, <1>3, <1>4 DEF Moves, Step, ClaimPromotions, ClaimRefused, CreateOrder,
     RedeemRead, RedeemSkipped, RedeemAgain, Complete, UndoComplete, EraseOrder,
     ReleaseClaim, Refuse, Cancel, Reprice, credit

LEMMA BalanceInit ==
    Init => BalanceKept
<1>. SUFFICES ASSUME Init, NEW i \in Instruments
              PROVE  balance[i] = Opening[i] - Took(i) + Put(i)
  BY DEF BalanceKept
<1>. DEFINE S == {c \in Carts : PaysWith[c] = i}
            f == [c \in Carts |-> refunds[c][i]]
<1>1. IsFiniteSet(Carts)
  BY CheckoutAssumption
<1>2. \A c \in Carts : f[c] = 0
  BY DEF Init
<1>3. IsFiniteSet(S) /\ \A c \in S : spent[c] = 0
  BY <1>1, FS_Subset DEF Init
<1>4. Took(i) = SumFunctionOnSet(spent, S) /\ Put(i) = SumFunctionOnSet(f, Carts)
  BY DEF Took, Put
<1>. HIDE DEF S, f
<1>5. Took(i) = 0
  BY <1>3, <1>4, OnSetZero
<1>6. Put(i) = 0
  BY <1>1, <1>2, <1>4, OnSetZero
<1>7. balance[i] = Opening[i] /\ Opening[i] \in Nat
  BY CheckoutAssumption DEF Init
<1>. QED
  BY <1>5, <1>6, <1>7

LEMMA BalanceNext ==
    ASSUME IndInv, IndInv', BalanceKept, [Next]_vars
    PROVE  BalanceKept'
<1>1. CASE UNCHANGED vars
  BY <1>1 DEF BalanceKept, Took, Put, vars, credit
<1>2. CASE Next
  <2>1. PICK c \in Carts : Moves(c)
    BY <1>2 DEF Next, Moves
  <2>2. TypeOK'
    BY DEF IndInv
  <2>. QED
    BY <2>1, <2>2, BalanceStep
<1>. QED
  BY <1>1, <1>2

\* Cart by cart, what was taken, and what staff refunded, is what was not put back
\* and every row that came back.
LEMMA RowsBalance ==
    ASSUME IndInv, NEW c \in Carts, NEW i \in Instruments
    PROVE  (IF PaysWith[c] = i THEN spent[c] ELSE 0) + Refunded(c, i)
               = (IF PaysWith[c] = i /\ Kept(c) THEN spent[c] ELSE 0) + refunds[c][i]
<1>1. spent[c] \in Nat /\ refunds[c][i] \in Nat /\ Refunded(c, i) \in Nat
  BY DEF IndInv, TypeOK, Refunded
<1>2. CASE PaysWith[c] # i
  <2>1. refunds[c][i] = Refunded(c, i)
    BY <1>2 DEF IndInv, Owed
  <2>. QED
    BY <1>1, <1>2, <2>1
<1>3. CASE PaysWith[c] = i
  <2>1. Kept(c) \/ PutBack(c)
    BY <1>3, CheckoutAssumption DEF IndInv, Owed, Pays
  <2>2. /\ Kept(c) <=> refunds[c][i] = Refunded(c, i)
        /\ PutBack(c) <=> refunds[c][i] = spent[c] + Refunded(c, i)
    BY <1>3 DEF Kept, PutBack, toAccount
  <2>. QED
    BY <1>1, <1>3, <2>1, <2>2
<1>. QED
  BY <1>2, <1>3

LEMMA BalanceIs ==
    ASSUME IndInv, BalanceKept, NEW i \in Instruments
    PROVE  balance[i] = Opening[i]
               - SumFunctionOnSet(spent, {c \in Carts : PaysWith[c] = i /\ Kept(c)})
               + SumFunctionOnSet(credited,
                     {c \in Carts : Owner[c] # Guest /\ Account[Owner[c]] = i})
<1>. DEFINE P == {c \in Carts : PaysWith[c] = i /\ Kept(c)}
            R == {c \in Carts : Owner[c] # Guest /\ Account[Owner[c]] = i}
            T == {c \in Carts : PaysWith[c] = i}
            p == [c \in Carts |-> IF c \in P THEN spent[c] ELSE 0]
            r == [c \in Carts |-> IF c \in R THEN credited[c] ELSE 0]
            t == [c \in Carts |-> IF c \in T THEN spent[c] ELSE 0]
            b == [c \in Carts |-> refunds[c][i]]
            n == [c \in Carts |-> t[c] + r[c]]
<1>1. IsFiniteSet(Carts)
  BY CheckoutAssumption
<1>2. \A c \in Carts : spent[c] \in Int /\ credited[c] \in Int
  BY DEF IndInv, TypeOK
<1>3. \A c \in Carts : p[c] \in Int /\ r[c] \in Int /\ t[c] \in Int
  BY <1>2
<1>4. \A c \in Carts : b[c] \in Int
  BY DEF IndInv, TypeOK
<1>5. \A c \in Carts : n[c] = t[c] + r[c]
  OBVIOUS
<1>6. \A c \in Carts : n[c] = p[c] + b[c]
  <2>. SUFFICES ASSUME NEW c \in Carts PROVE t[c] + r[c] = p[c] + b[c]
    OBVIOUS
  <2>1. (IF PaysWith[c] = i THEN spent[c] ELSE 0) + Refunded(c, i)
            = (IF PaysWith[c] = i /\ Kept(c) THEN spent[c] ELSE 0) + refunds[c][i]
    BY RowsBalance
  <2>2. t[c] = IF PaysWith[c] = i THEN spent[c] ELSE 0
    OBVIOUS
  <2>3. r[c] = Refunded(c, i)
    BY DEF Refunded
  <2>4. p[c] = IF PaysWith[c] = i /\ Kept(c) THEN spent[c] ELSE 0
    OBVIOUS
  <2>5. b[c] = refunds[c][i]
    OBVIOUS
  <2>. HIDE DEF t, r, p, b
  <2>. QED
    BY <2>1, <2>2, <2>3, <2>4, <2>5
<1>7. /\ P \in SUBSET Carts /\ \A c \in Carts : p[c] = IF c \in P THEN spent[c] ELSE 0
      /\ R \in SUBSET Carts /\ \A c \in Carts : r[c] = IF c \in R THEN credited[c] ELSE 0
      /\ T \in SUBSET Carts /\ \A c \in Carts : t[c] = IF c \in T THEN spent[c] ELSE 0
  OBVIOUS
<1>8. Took(i) = SumFunctionOnSet(spent, T) /\ Put(i) = SumFunctionOnSet(b, Carts)
  BY DEF Took, Put
<1>9. balance[i] = Opening[i] - Took(i) + Put(i) /\ Opening[i] \in Int
  BY CheckoutAssumption DEF BalanceKept
<1>. HIDE DEF P, R, T, p, r, t, b, n
<1>10. SumFunctionOnSet(spent, P) = SumFunctionOnSet(p, Carts)
  BY <1>1, <1>2, <1>7, OnSetMask
<1>11. SumFunctionOnSet(credited, R) = SumFunctionOnSet(r, Carts)
  BY <1>1, <1>2, <1>7, OnSetMask
<1>12. SumFunctionOnSet(spent, T) = SumFunctionOnSet(t, Carts)
  BY <1>1, <1>2, <1>7, OnSetMask
<1>13. SumFunctionOnSet(n, Carts) = SumFunctionOnSet(t, Carts) + SumFunctionOnSet(r, Carts)
  BY <1>1, <1>3, <1>5, OnSetAdds
<1>14. SumFunctionOnSet(n, Carts) = SumFunctionOnSet(p, Carts) + SumFunctionOnSet(b, Carts)
  BY <1>1, <1>3, <1>4, <1>6, OnSetAdds
<1>15. /\ SumFunctionOnSet(p, Carts) \in Int /\ SumFunctionOnSet(r, Carts) \in Int
       /\ SumFunctionOnSet(t, Carts) \in Int /\ SumFunctionOnSet(b, Carts) \in Int
  BY <1>1, <1>3, <1>4, OnSetRemove
<1>16. balance[i] = Opening[i] - SumFunctionOnSet(spent, P) + SumFunctionOnSet(credited, R)
  BY <1>8, <1>9, <1>10, <1>11, <1>12, <1>13, <1>14, <1>15
<1>. QED
  BY <1>16 DEF P, R

\* Money is neither made nor lost, for any carts, amounts, instruments and kind
\* of budget: no compensation, however often it runs, no cancellation and no
\* refund gives back twice or forgets, but for what a budget gets back that was
\* not charged to it (restore_gift_card, restore_store_credit, release,
\* release_promotions, refund_to_credit).
THEOREM MoneyAlwaysKept == Spec => []MoneyKept
<1>1. IndInv /\ Counted /\ BalanceKept => MoneyKept
  <2>. SUFFICES ASSUME IndInv, Counted, BalanceKept PROVE MoneyKept
    OBVIOUS
  <2>1. \A c \in Carts :
          stage[c] = "placed" /\ going[c] = "over" /\ Pays(c) => Kept(c)
    BY DEF IndInv, Owed
  <2>. QED
    BY <2>1, BalanceIs DEF MoneyKept, Counted
<1>2. Spec => []BalanceKept
  BY BalanceInit, BalanceNext, CheckoutInvariance, PTL DEF Spec
<1>. QED
  BY <1>1, <1>2, CheckoutInvariance, CountedAlways, PTL

\* No counter and no balance ever runs below nothing (the clamps of release and
\* release_budget, the condition of redeem).
THEOREM CheckoutTypes == Spec => []TypeOK
<1>1. IndInv => TypeOK
  BY DEF IndInv
<1>. QED
  BY <1>1, CheckoutInvariance, PTL
=============================================================================

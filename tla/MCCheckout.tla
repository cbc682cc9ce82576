------------------------------ MODULE MCCheckout ------------------------------
(* Two carts of one customer, and one of nobody's, for TLC. *)
EXTENDS Checkout, TLC

CONSTANTS c1, c2, c3, ana, card, account

Owners   == [c \in Carts |-> IF c = c3 THEN Guest ELSE ana]
Accounts == ana :> account
Paying   == [c \in Carts |-> IF c = c3 THEN card ELSE account]
OneCard  == [c \in Carts |-> IF c = c3 THEN card ELSE NoInstrument]
Issued   == [i \in Instruments |-> IF i = card THEN 1 ELSE 2]
=============================================================================

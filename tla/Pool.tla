-------------------------------- MODULE Pool --------------------------------
(***************************************************************************)
(* What a promotion with a limit promises: at most that many hold a use of *)
(* it, each at most once at a time, and whoever gives one back gives back  *)
(* its own.  A use given back by somebody who holds none is a stray, and   *)
(* makes room for one more than there is.                                  *)
(***************************************************************************)
EXTENDS Naturals, FiniteSets

CONSTANTS Holders, \* who may hold a use
          Limit    \* how many uses there are

VARIABLES holding, \* who does
          strays   \* how many came back that were not held

Init == holding = {} /\ strays = 0

Take(h) ==
    /\ h \notin holding
    /\ Cardinality(holding) < Limit + strays
    /\ holding' = holding \cup {h}
    /\ UNCHANGED strays

GiveBack(h) ==
    /\ h \in holding
    /\ holding' = holding \ {h}
    /\ UNCHANGED strays

Stray(h) ==
    /\ h \notin holding
    /\ strays' = strays + 1
    /\ UNCHANGED holding

Next == \E h \in Holders : Take(h) \/ GiveBack(h) \/ Stray(h)

Spec == Init /\ [][Next]_<<holding, strays>>
=============================================================================

---------------------------- MODULE UpdateStream ----------------------------
(***************************************************************************)
(* What the book of the exchange promises of the market updates of a       *)
(* ticker, and the book of the trading side takes for granted: an ADD has  *)
(* an id that was never used, and a CANCEL is of an order that was added   *)
(* and has not been cancelled.                                             *)
(***************************************************************************)
EXTENDS Naturals

VARIABLES
    resting,    \* id -> price, for each order added and not cancelled
    fresh       \* this id and those above have not been used

vars == <<resting, fresh>>

Init == resting = <<>> /\ fresh = 0

\* The new order has the last id used.
Announce == /\ fresh' \in Nat /\ fresh' > fresh
            /\ DOMAIN resting' = DOMAIN resting \cup {fresh' - 1}
            /\ \A o \in DOMAIN resting : resting'[o] = resting[o]

\* An order may be given an id and never rest.
Pass == /\ fresh' = fresh + 1
        /\ UNCHANGED resting

Withdraw == \E id \in DOMAIN resting :
               /\ resting' = [o \in DOMAIN resting \ {id} |-> resting[o]]
               /\ UNCHANGED fresh

Next == Announce \/ Pass \/ Withdraw

Spec == Init /\ [][Next]_vars
=============================================================================

--------------------------------- MODULE Stock ---------------------------------
(***************************************************************************)
(* What a store promises, whatever the documents that keep it: the units   *)
(* it has are free or promised to one customer; a promise is made of free  *)
(* units, and kept or given up as a whole; what is handed out beside it is *)
(* free.  Somebody may act beside these rules: from then on nothing more   *)
(* is promised.                                                            *)
(***************************************************************************)
EXTENDS Naturals

CONSTANT Customers

VARIABLES
  onHand,    \* the units in the store
  free,      \* those of them that nobody was promised
  promised,  \* to each customer, the units promised
  disturbed  \* what was done beside the rules

vars == <<onHand, free, promised, disturbed>>

Init ==
  /\ onHand \in Nat /\ free = onHand
  /\ promised = [c \in Customers |-> 0]
  /\ disturbed = {}

Reserve(c, n) ==
  /\ free' = free - n
  /\ promised' = [promised EXCEPT ![c] = @ + n]
  /\ UNCHANGED <<onHand, disturbed>>

Release(c) ==
  /\ free' = free + promised[c]
  /\ promised' = [promised EXCEPT ![c] = 0]
  /\ UNCHANGED <<onHand, disturbed>>

\* The customer gets what he was promised, and n free units beside it.
Deliver(c, n) ==
  /\ free' = free - n
  /\ onHand' = onHand - promised[c] - n
  /\ promised' = [promised EXCEPT ![c] = 0]
  /\ UNCHANGED disturbed

\* Units come in, or free ones go.
Count ==
  /\ free' \in Nat /\ free' + onHand = free + onHand'
  /\ UNCHANGED <<promised, disturbed>>

Disturb == disturbed' # {}

Next ==
  \/ Disturb \/ Count
  \/ \E c \in Customers :
       Release(c) \/ \E n \in 0..free : Reserve(c, n) \/ Deliver(c, n)

Spec == Init /\ [][Next]_vars
================================================================================

------------------------------ MODULE MCOutbox ------------------------------
(* Small instances of Outbox for TLC.  The runs of processOutbox are           *)
(* interchangeable; rows and dead letters are not: they are ordered.           *)
EXTENDS Outbox, TLC

CONSTANTS e1, e2, t1, t2, a1, a2

TickSymmetry == Permutations({t1, t2})
=============================================================================

---------------------------- MODULE MCReservation ----------------------------
(* Model values for TLC; requisitions and users are interchangeable. *)
EXTENDS Reservation, Functions, TLC

CONSTANTS r1, r2, u1, u2

ReqSymmetry  == Permutations(Reqs)
BothSymmetry == Permutations(Reqs) \cup Permutations(Users)

\* For runs whose properties read neither the history `taken' nor how a
\* requisition ended.  No action reads `taken'; once the buying is over none reads
\* what was ordered, bought or short, unless a request in progress names the
\* requisition; at its end none reads what was closed, or how its child order
\* ended.  States that differ in these alone are one.
Over(l) == l.status \in {"completed", "cancelled"}
Read(r) ==
  LET l == req[r] IN
  IF (\E u \in Users : session[u].id = r) \/ ~(Over(l) \/ l.status = "sourcing")
  THEN l
  ELSE [l EXCEPT !.ordered = 0, !.bought = 0, !.short = FALSE,
                 !.closed = IF Over(l) THEN {} ELSE @,
                 !.onPO   = IF Over(l) THEN FALSE ELSE @,
                 !.po     = IF Over(l) /\ @ \in {"closed", "cancelled"} THEN "none" ELSE @]
WhatIsRead == <<stock, [r \in Reqs |-> Read(r)], so, item, session, unusual>>

\* Counting units is adding up quantities, as SUM does.
ASSUME TotalIsASum ==
  \A f \in [1..3 -> 0..3], S \in SUBSET (1..3) : Total(f, S) = SumFunctionOnSet(f, S)
=============================================================================

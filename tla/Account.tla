------------------------------- MODULE Account -------------------------------
(***************************************************************************)
(* What money held for one purpose promises, whatever the code that keeps  *)
(* it: it is opened once with a limit, every withdrawal fits into what is  *)
(* left at that moment, and it can be closed only untouched.               *)
(***************************************************************************)
EXTENDS Integers

CONSTANT Amounts  \* the amounts there are

VARIABLES
  phase,  \* "new", "open" or "closed"
  limit,  \* what may be withdrawn in all
  spent   \* what was withdrawn

vars == <<phase, limit, spent>>

Init == phase = "new" /\ limit = 0 /\ spent = 0

Open(n) ==
  /\ phase = "new"
  /\ phase' = "open" /\ limit' = n /\ spent' = 0

Withdraw(n) ==
  /\ phase = "open" /\ n <= limit - spent
  /\ spent' = spent + n
  /\ UNCHANGED <<phase, limit>>

\* The limit is corrected, never below what is gone.
Resize(n) ==
  /\ phase = "open" /\ spent <= n
  /\ limit' = n
  /\ UNCHANGED <<phase, spent>>

Close ==
  /\ phase = "open" /\ spent = 0
  /\ phase' = "closed" /\ limit' = 0
  /\ UNCHANGED spent

Next == Close \/ \E n \in Amounts : Open(n) \/ Withdraw(n) \/ Resize(n)

Spec == Init /\ [][Next]_vars
=============================================================================

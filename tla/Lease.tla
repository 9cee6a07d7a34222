-------------------------------- MODULE Lease --------------------------------
(***************************************************************************)
(* What a queue of work promises, whatever the code that keeps it: a task  *)
(* is taken while it is open, by one worker at a time; only who holds it   *)
(* finishes it or opens it again; what is done stays done.  A worker may   *)
(* die with his tasks, which then stay taken by nobody.  An operator may   *)
(* open tasks again: those that somebody held, or that were done, are      *)
(* disturbed, and of them nothing more is promised.                        *)
(***************************************************************************)
CONSTANTS
  Tasks,
  Workers

VARIABLES
  phase,     \* what became of each task
  holders,   \* who works on it
  disturbed  \* tasks an operator opened under a worker, or after their end

vars == <<phase, holders, disturbed>>

Phases == {"new", "open", "taken", "done"}

Init ==
  /\ phase = [x \in Tasks |-> "new"]
  /\ holders = [x \in Tasks |-> {}]
  /\ disturbed = {}

Arrive(x) ==
  /\ phase[x] = "new"
  /\ phase' = [phase EXCEPT ![x] = "open"]
  /\ UNCHANGED <<holders, disturbed>>

Free(x) == holders[x] = {} \/ x \in disturbed

Take(w, S) ==
  /\ \A x \in S : phase[x] = "open" /\ Free(x)
  /\ holders' = [x \in Tasks |-> IF x \in S THEN holders[x] \cup {w} ELSE holders[x]]
  /\ phase' = [x \in Tasks |-> IF x \in S THEN "taken" ELSE phase[x]]
  /\ UNCHANGED disturbed

\* The holder finishes tasks, or opens them again.
Return(w, S) ==
  /\ \A x \in S : w \in holders[x] /\ (phase[x] = "taken" \/ x \in disturbed)
  /\ holders' = [x \in Tasks |-> IF x \in S THEN holders[x] \ {w} ELSE holders[x]]
  /\ phase' \in [Tasks -> Phases]
  /\ \A x \in Tasks : IF x \in S THEN phase'[x] \in {"open", "done"}
                                 ELSE phase'[x] = phase[x]
  /\ UNCHANGED disturbed

\* Workers die or forget what they hold.
Die(W) ==
  /\ holders' = [x \in Tasks |-> holders[x] \ W]
  /\ UNCHANGED <<phase, disturbed>>

Reopen(S) ==
  /\ \A x \in S : phase[x] # "new"
  /\ phase' = [x \in Tasks |-> IF x \in S THEN "open" ELSE phase[x]]
  /\ disturbed \cup {x \in S : holders[x] # {} \/ phase[x] = "done"} \subseteq disturbed'
  /\ disturbed' \subseteq disturbed \cup S
  /\ UNCHANGED holders

Next ==
  \/ \E x \in Tasks : Arrive(x)
  \/ \E w \in Workers, S \in SUBSET Tasks : Take(w, S) \/ Return(w, S)
  \/ \E W \in SUBSET Workers : Die(W)
  \/ \E S \in SUBSET Tasks : Reopen(S)

Spec == Init /\ [][Next]_vars
=============================================================================

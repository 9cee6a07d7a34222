------------------------------ MODULE MCAdvances ------------------------------
(* Model values for TLC; documents, and users, are interchangeable. *)
EXTENDS Advances, TLC

CONSTANTS d1, d2, u1, u2, l1, l2

Symmetry == Permutations(Docs) \cup Permutations(Users) \cup Permutations(PoLines)
=============================================================================

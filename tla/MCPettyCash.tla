------------------------------ MODULE MCPettyCash ------------------------------
(* One float, one claim and one replenishment, and two people.             *)
EXTENDS PettyCash, TLC

Symmetry == Permutations(Users)
=============================================================================

------------------------------- MODULE MCPayable -------------------------------
(* One vendor invoice and two people who may be at it at once.             *)
EXTENDS Payable, TLC

Symmetry == Permutations(Users)
=============================================================================

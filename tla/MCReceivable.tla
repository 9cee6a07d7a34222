----------------------------- MODULE MCReceivable -----------------------------
(* One invoice and two people who may be at it at once.                    *)
EXTENDS Receivable, TLC

Symmetry == Permutations(Users)
=============================================================================

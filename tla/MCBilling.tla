------------------------------ MODULE MCBilling ------------------------------
(* A small contract for TLC: invoices and people are interchangeable.      *)
EXTENDS Billing, TLC

Symmetry == Permutations(Invoices) \cup Permutations(Users)

\* Bound: a behaviour is not followed further once no flag is trusted.
SomeTrusted == blurred # Sources
=============================================================================

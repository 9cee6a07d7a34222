---------------------------- MODULE MCMobileQueue ----------------------------
(* Model values for TLC; requests are interchangeable. *)
EXTENDS MobileQueue, TLC

CONSTANTS r1, r2

RequestSymmetry == Permutations(Requests)
=============================================================================

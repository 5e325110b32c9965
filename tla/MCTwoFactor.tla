----------------------------- MODULE MCTwoFactor ------------------------------
(* Instances of TwoFactor for TLC.                                         *)
EXTENDS TwoFactor, TLC

CONSTANTS r1, r2, r3, u1

Symmetry == Permutations(Requests)
=============================================================================

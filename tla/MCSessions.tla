------------------------------ MODULE MCSessions ------------------------------
(* Instances of Sessions for TLC.                                          *)
EXTENDS Sessions, TLC

CONSTANTS r1, r2, u1, u2

Symmetry == Permutations(Requests) \cup Permutations(Users)
=============================================================================

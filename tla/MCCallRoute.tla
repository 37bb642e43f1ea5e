----------------------------- MODULE MCCallRoute -----------------------------
(* Instances of CallRoute for TLC.                                          *)
EXTENDS CallRoute, TLC

ConnSymmetry == Permutations(Conns)
=============================================================================

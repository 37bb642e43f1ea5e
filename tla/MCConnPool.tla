----------------------------- MODULE MCConnPool -----------------------------
(* Instances of ConnPool for TLC.                                          *)
EXTENDS ConnPool, TLC

PoolSymmetry ==
    Permutations(Callers) \cup Permutations(ClientPools) \cup Permutations(Slots)
=============================================================================

---------------------------- MODULE MCRpcServer ----------------------------
(* Instances of RpcServer for TLC.                                         *)
EXTENDS RpcServer, TLC

ServerSymmetry == Permutations(Requests) \cup Permutations(Conns)
=============================================================================

---------------------------- MODULE MCRemotePolicy ----------------------------
(* RemotePolicy on a small instance.                                       *)
EXTENDS RemotePolicy, TLC

Symmetry == Permutations(Procs) \cup Permutations(Groups)
=============================================================================

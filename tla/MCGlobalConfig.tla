--------------------------- MODULE MCGlobalConfig ---------------------------
(* Instances of GlobalConfig for TLC: Groovy and Python processes on the   *)
(* two kinds of kernel.                                                    *)
EXTENDS GlobalConfig, TLC

CONSTANTS groovy, python, p1, p2, p3

SameRuntime == [p \in Procs |-> groovy]
MixedRuntimes == [p \in Procs |-> IF p = p2 THEN python ELSE groovy]

\* One table for both kinds of lock, and a table for each (Linux).
SharedTable == [r \in Runtimes |-> "config.lock"]
SeparateTables == [r \in Runtimes |-> IF r = groovy THEN "record" ELSE "flock"]

Symmetry == Permutations(Procs) \cup Permutations(Names) \cup Permutations(Dirs)
=============================================================================

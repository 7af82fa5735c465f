------------------------- MODULE MCWorkspaceLifecycle -------------------------
(* Instances of WorkspaceLifecycle for TLC.  Both vaults offer the one     *)
(* skill to every IDE; PartialOffers leaves an IDE out of the second.      *)
EXTENDS WorkspaceLifecycle, TLC

CONSTANTS vaultA, vaultB, cursor, claude

SameOffers == [v \in Vaults |-> [i \in Ides |-> Skills]]
PartialOffers == [v \in Vaults |-> [i \in Ides |-> IF v = vaultB /\ i = claude THEN {} ELSE Skills]]
=============================================================================

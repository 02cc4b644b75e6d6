------------------------ MODULE MCStorageCoordinator ------------------------
(* TLC instances of StorageCoordinator: two coordinators, rare events at most  *)
(* once each.                                                                *)
EXTENDS StorageCoordinator, TLC

\* Rare events allowed in a run: the listed ones once each (or n times).
Budget(once) == [r \in Rare |-> IF r \in once THEN 1 ELSE 0]
FencingBudget == Budget({"crash", "disaster", "lost"})
PauseBudget == Budget({"pause", "foreign", "crash", "io"})
LostBudget == Budget({"lost", "pause"})

Symmetry == Permutations(Proc)
=============================================================================

--------------------------- MODULE MCPoolManager ---------------------------
(* Small instances of PoolManager: ids of managed nodes are interchangeable. *)
EXTENDS PoolManager, TLC

ManagedSymmetry == Permutations(Managed)
=============================================================================

--------------------------- MODULE MCPersistSync ---------------------------
(* Small instances of PersistSync.                                         *)
EXTENDS PersistSync, TLC

Symmetry == Permutations(Writers) \cup Permutations(Values) \cup Permutations(Inodes)
=============================================================================

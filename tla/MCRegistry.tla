----------------------------- MODULE MCRegistry -----------------------------
(* A small instance of Registry: ids, names and processes are              *)
(* interchangeable.                                                        *)
EXTENDS Registry, TLC

Symmetry == Permutations(Ids) \cup Permutations(Names) \cup Permutations(Procs)
=============================================================================

------------------------------- MODULE MCIpam -------------------------------
(* Small instances of Ipam: containers that are launched equally often are *)
(* interchangeable, and so are the processes.                              *)
EXTENDS Ipam, TLC

Symmetry == Permutations(Relaunched) \cup Permutations(Containers \ Relaunched)
            \cup Permutations(Procs)
=============================================================================

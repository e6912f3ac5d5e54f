--------------------------- MODULE MCHostNetwork ---------------------------
(* Small instances of HostNetwork.  Two of the containers have ids that    *)
(* begin with the same six digits.                                         *)
EXTENDS HostNetwork, TLC

CONSTANTS c1, c2, c3

MCNameOf == [c \in Containers |-> IF c = c3 THEN 2 ELSE 1]

Symmetry == Permutations(Containers \ {c3})
=============================================================================

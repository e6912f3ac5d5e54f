------------------------------ MODULE LeasePool ------------------------------
(***************************************************************************)
(* What the address manager promises the rest of the engine: one shared    *)
(* table of leases, from which a container is granted an address nobody    *)
(* else holds and to which it gives that address back.  Module Ipam        *)
(* implements it as long as engine processes do not overlap.               *)
(***************************************************************************)
EXTENDS Leases

VARIABLE lease  \* container -> its address, or NoAddr

Init == lease = EmptyLease

Grant(c) == /\ lease[c] = NoAddr
            /\ \E a \in FreeAddrs(lease) : lease' = [lease EXCEPT ![c] = a]

Return(c) == /\ lease[c] # NoAddr
             /\ lease' = [lease EXCEPT ![c] = NoAddr]

Next == \E c \in Containers : Grant(c) \/ Return(c)

Spec == Init /\ [][Next]_lease
=============================================================================

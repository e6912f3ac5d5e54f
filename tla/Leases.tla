------------------------------- MODULE Leases -------------------------------
(***************************************************************************)
(* The data of the address manager: lease maps over the hosts of a subnet  *)
(* (IpamState in engine/runtime/network.rs).                               *)
(***************************************************************************)
EXTENDS Integers, FiniteSets

CONSTANTS Containers,  \* container ids
          NumHosts     \* host addresses of the subnet

ASSUME HostsAssumption == NumHosts \in Nat \ {0}

\* Hosts are numbered in the order of Ipv4Net::hosts(); the first one is the
\* gateway and allocate() skips it.
Pool   == 2..NumHosts
NoAddr == 0

\* IpamState.allocations; NoAddr stands for an absent key.
LeaseMap   == [Containers -> Pool \cup {NoAddr}]
EmptyLease == [c \in Containers |-> NoAddr]

\* Mutant: the next address is computed from the number of leases.
FreeAddrsByCount(m) ==
    {2 + Cardinality({c \in Containers : m[c] # NoAddr})} \cap Pool

\* The addresses allocate() can choose from.
FreeAddrs(m) == {a \in Pool : \A c \in Containers : m[c] # a}

\* No two containers hold one address.
Injective(m) ==
    \A c, d \in Containers : c # d /\ m[c] # NoAddr => m[c] # m[d]
=============================================================================

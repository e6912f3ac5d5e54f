-------------------------- MODULE MCPortForwarding --------------------------
(* Small instances of PortForwarding.                                      *)
EXTENDS PortForwarding, TLC

CONSTANTS c1, c2

\* One container with two ports of the host, and one that takes over its first
\* port and does not publish the second; the masquerade rules coincide.
SomePorts ==
    c1 :> <<[host |-> 1, container |-> 8], [host |-> 2, container |-> 8]>>
    @@ c2 :> <<[host |-> 1, container |-> 8]>>
=============================================================================

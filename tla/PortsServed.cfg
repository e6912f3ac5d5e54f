\* Two supervisors edit the tables and ipam.json at any interleaving; one may be
\* lost, and the host reboots.
CONSTANTS
    c1 = c1
    c2 = c2
    Containers = {c1, c2}
    Publish <- SomePorts
    Fallible = {c2}
    NumHosts = 3
    Ports = {1, 2, 8}
SPECIFICATION PortsSpec
INVARIANTS PortsTypeOK PortLeadsToPublisher NoStrayRule

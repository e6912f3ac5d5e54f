\* Three launches, two of them with the same veth name, any of which may break
\* off or exit at any point; the bridge is deleted, and the host reboots.
CONSTANTS
    c1 = c1
    c2 = c2
    c3 = c3
    Containers = {c1, c2, c3}
    NameOf <- MCNameOf
    NumRules = 2
SYMMETRY Symmetry
SPECIFICATION Spec
INVARIANTS NoRuleTwice OutboundWorks RunningIsAttached

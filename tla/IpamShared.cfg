\* Launches one after the other, no failures, but supervisors end and ps
\* runs meanwhile: a stale write-back takes a lease away from a running container
\* and the address is given again.
CONSTANTS
    Containers = {c1, c2, c3}
    NoContainer = NoContainer
    Procs = {p1, p2}
    NoProc = NoProc
    Orphan = Orphan
    NumHosts = 4
    OverlapLaunches = FALSE
    Relaunched = {}
    Failures = FALSE
\* Everything has ended when all ids were launched and no reboot is left.
CHECK_DEADLOCK FALSE
SPECIFICATION Spec
SYMMETRY Symmetry
INVARIANTS NoSharedAddress

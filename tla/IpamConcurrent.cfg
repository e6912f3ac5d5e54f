\* Two engine processes (a command, a supervisor, a refresh) at any
\* interleaving, with launches that fail, crashes and reboots: what each process
\* holds of ipam.json may be stale. Three containers and two addresses; two of
\* the containers are launched once, one again and again.
CONSTANTS
    Containers = {c1, c2, c3}
    NoContainer = NoContainer
    Procs = {p1, p2}
    NoProc = NoProc
    Orphan = Orphan
    NumHosts = 3
    OverlapLaunches = TRUE
    Relaunched = {c1}
    Failures = TRUE
SPECIFICATION Spec
SYMMETRY Symmetry
INVARIANTS LeasesUnique SupervisorKnowsLease AddressStable LiveIsLeased
PROPERTY PoolSpec

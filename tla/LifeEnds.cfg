\* One run of a container, detached, detached with --rm, or in the foreground,
\* one command at a time, and faults: how it ends, what is left of it, and
\* whether anybody learns of it.
CONSTANTS
    c1 = c1
    c2 = c2
    c3 = c3
    k1 = k1
    k2 = k2
    Ids = {c1, c2, c3}
    CLIs = {k1}
    Settings <- OneRunOfEach
    MaxSpawns = 1
    MaxBoots = 2
SPECIFICATION FairSpec
INVARIANTS NothingLeft NothingBurnt
PROPERTIES ExitIsReported DeadIsNoticed

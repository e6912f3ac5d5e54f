\* Two settings: one run of a container, two commands at any interleaving, and
\* every fault; every command in any order, by users who wait, and a reboot.
CONSTANTS
    c1 = c1
    c2 = c2
    c3 = c3
    k1 = k1
    k2 = k2
    Ids = {c1}
    CLIs = {k1, k2}
    Settings <- RaceAndWaiting
    MaxSpawns = 3
    MaxBoots = 2
SPECIFICATION Spec
INVARIANTS TypeOK FinishedMeansDead RunningHasDir StopReadsAgree OneInstance
PROPERTY StoppedStays

\* PID 1 with two orphans and three signals: exit codes, zombies, forwarding.
CONSTANTS
    Target = target
    Orphans = {o1, o2}
    Codes <- ExitCodes
    MaxSends = 3
SPECIFICATION FairSpec
INVARIANTS ReportsTheTarget
PROPERTIES ZombiesAreReaped CaughtIsForwarded

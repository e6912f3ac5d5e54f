\* Every Crabtainerfile of up to three lines, every ignore file of up to two rules,
\* a run with every choice of options, and two starts, before and after the
\* layout was built anew.
CONSTANTS
    dir = dir
    topFile = topFile
    subFile = subFile
    keepFile = keepFile
    a1 = a1
    a2 = a2
    a3 = a3
    k1 = k1
    old = old
    new = new
    NaN = NaN
    U32 = 8
    Root = "root"
    Parent <- Tree
    Dirs = {dir}
    IgnoreFile = "ignore"
    FileLines <- Lines
    MaxLines = 3
    ImageConfig <- ImageChoices
    RuleLists <- FewRules
    Rebuilt <- Anew
    EnvVars <- Env
    CliOptions <- Given
    Unfit <- TooHigh
    Period = 10
    Factor = 4
    MinQuota = 1
    MaxQuota = 500
    MaxStarts = 3
\* A refused file, and a container launched as often as the bound allows.
CHECK_DEADLOCK FALSE
SPECIFICATION OptionsSpec
INVARIANTS LayoutIsAsWritten CopyTakesTheRest PortsAsMeant StartsWithItsOptions

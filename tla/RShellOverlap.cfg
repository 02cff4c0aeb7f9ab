\* Two of three calls may overlap, all collecting from stdout; R may hang
\* and the program closes the shell at any time.
SPECIFICATION FairSpec
CONSTANTS
    c1 = c1
    c2 = c2
    c3 = c3
    Calls = {c1, c2, c3}
    StderrCalls = {}
    BothCalls = {}
    VersionCalls = {}
    TmpDirCalls = {c3}
    OutLines = 1
    ErrLines = 0
    Revive = "always"
    MaxOpen = 2
    TimeoutsFire = TRUE
    MaxCrashes = 0
    MayClose = TRUE
INVARIANTS
    OpenCallsCanSettle
PROPERTIES
    EverySettles
\* the system stops when the bounded calls and crashes are used up
CHECK_DEADLOCK FALSE

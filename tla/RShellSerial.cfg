\* The program awaits each of two calls (one asks for the version, one for the
\* temporary directory); R may hang past the timeout and crash twice; the session is
\* revived.
SPECIFICATION FairSpec
CONSTANTS
    c1 = c1
    c2 = c2
    Calls = {c1, c2}
    StderrCalls = {}
    BothCalls = {}
    VersionCalls = {c1}
    TmpDirCalls = {c2}
    OutLines = 2
    ErrLines = 0
    Revive = "always"
    MaxOpen = 1
    TimeoutsFire = TRUE
    MaxCrashes = 2
    MayClose = FALSE
INVARIANTS
    KeptLinesAreOwn
    NoTimerOutlivesItsCall
PROPERTIES
    EndedSessionIsReplaced
    ImplementsChannel
\* the system stops when the bounded calls and crashes are used up
CHECK_DEADLOCK FALSE

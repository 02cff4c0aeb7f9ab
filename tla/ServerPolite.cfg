\* Two clients that wait for each answer, one at a time at the shell; R may end once.
SPECIFICATION FairSpec
CONSTANTS
    c1 = c1
    c2 = c2
    Clients = {c1, c2}
    Script <- WithNeighbour
    Polite = TRUE
    Unparseable = {"bad"}
    MaxCrashes = 1
INVARIANTS
    AnsweredOnce
    
    
    
PROPERTY
    AnsweredWhileUp
\* a server that has answered the scripts waits, and a dead one stays dead
CHECK_DEADLOCK FALSE

\* Seven argument lists, four successes wanted, three children at a time:
\* the queue outlasts the limit, and enough runs may fail to exhaust it.
SPECIFICATION FairSpec
CONSTANTS
    QueueLength = 7
    Limit = 4
    Parallel = 3
INVARIANTS
    EveryRunAccountedFor
    WorkConserving
    LimitsRespected
    DoneMeansServed
PROPERTY
    EventuallyDone
\* the pool stops once run() has resolved
CHECK_DEADLOCK FALSE

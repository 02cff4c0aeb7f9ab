\* Two callers that await each other, two criteria, every step wanted.
SPECIFICATION FairSpec
CONSTANTS
    p1 = p1
    p2 = p2
    k1 = k1
    k2 = k2
    Callers = {p1, p2}
    Criteria = {k1, k2}
    StepOfInterest = "reconstruct"
    Awaited = TRUE
INVARIANTS
    ResultsFollowCounter
    ResultsFitCriterion
    ReachedMeansWanted
    AllRemainingReaches
PROPERTY
    CallsReturn

\* R's evaluation of small programs is a path through their control flow graph.
CONSTANT
    More = {}
SPECIFICATION Spec
INVARIANTS
    IsHammock
    VisitorMissesNothing
PROPERTY
    EvaluationFollowsTheGraph
CHECK_DEADLOCK FALSE

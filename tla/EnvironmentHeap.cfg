\* All sequences of calls that make up to five environments of two scopes.
SPECIFICATION Spec
CONSTANTS
    Names = {"cat", "x"}
    BuiltInNames = {"cat"}
    MaxEnvironments = 5
    MaxLevel = 1
INVARIANTS
PROPERTIES
    ResultsAreRight
    ExistingOnlyWeakened
\* nothing is left to do once all environments are made and weakened
CHECK_DEADLOCK FALSE

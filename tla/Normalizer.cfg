\* Every construct of R in every place of every other: parse data to decorated AST.
CONSTANT
    WithMethods = FALSE
SPECIFICATION Spec
INVARIANTS
    KeepsTheProgram
    LinkedBothWays
CHECK_DEADLOCK FALSE

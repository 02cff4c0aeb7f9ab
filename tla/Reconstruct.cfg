\* Slices of five files, each reconstructed from the AST that an earlier reconstruction left.
CONSTANTS
    More = {}
    Rounds = 2
    Programs <- MCPrograms
SPECIFICATION Spec
INVARIANTS
    NothingLost
    
    IsCode
CHECK_DEADLOCK FALSE

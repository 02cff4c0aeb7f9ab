\* R's evaluation of small programs needs nothing that their dataflow graph does not have.
CONSTANTS
    More = {}
    MaxFrames = 4
    Names = {"x", "y", "f", "g", "a", "b", "i", "u", "cat", "return", "source", "..."}
    BuiltInNames = {"cat", "return", "source"}
SPECIFICATION Spec
INVARIANTS
    UsesReadTheirDefinitions
    CallsAreLinked
    NothingDangles
CHECK_DEADLOCK FALSE

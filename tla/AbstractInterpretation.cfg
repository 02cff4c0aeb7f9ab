\* The domains of definitions against the values R gives them.
CONSTANTS
    More = {}
    Names = {"w", "x", "y", "z", "u", "f", "cat"}
    BuiltInNames = {"cat"}
SPECIFICATION Spec
INVARIANTS
    ValuesAreInTheirDomains
    ComesToTheEnd
CHECK_DEADLOCK FALSE

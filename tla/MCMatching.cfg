SPECIFICATION Spec
CONSTANTS
    Alphabet = {"a", "b"}
    MaxPattern = 6
    MaxText = 6
INVARIANTS
    TypeOK
    Exact
    PiIsLongest
    NothingMissed
PROPERTIES
    Terminates

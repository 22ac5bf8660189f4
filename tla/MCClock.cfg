SPECIFICATION Spec
CONSTANTS
    Starts <- MCStarts
    MaxTicks = 3
    CURRENT_YEAR = 2024
INVARIANTS
    TypeOK
    ReadingIsOneMoment
    
PROPERTIES
    ReadReturns

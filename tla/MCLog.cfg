\* Capacities 2, 3, 4 and 6, each growth with the contents wrapped and not; one
\* push more than the table can grow for, and one buffer less than lines.
CONSTANTS
    Element = {1, 2, 3, 4, 5, 6, 7}
    NULL = NULL
    Junk = Junk
    InitCapacity = 2
    MaxCapacity = 6
    MaxBuffers = 7
    MaxLines = 12
SPECIFICATION LogFairSpec
INVARIANTS TypeOK IndexesAgree BuffersConserved LinesInOrder
PROPERTIES IsFifo Written
\* Logging stops at the bound.
CHECK_DEADLOCK FALSE

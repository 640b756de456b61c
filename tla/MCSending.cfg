\* Messages of one to three bytes through a window of two, into a buffer of two.
CONSTANTS
    Junk = Junk
    Sizes = {1, 2, 3}
    KernelRoom = 2
    Late = FALSE
    MaxConns = 2
    MaxBytes = 6
    FirstSize = 2
    Growth = 1
    MaxSize = 20
SPECIFICATION SendingFairSpec
INVARIANTS StreamExact HandedOver
PROPERTY SendReturns
\* The program may send no more, and the connections end.
CHECK_DEADLOCK FALSE

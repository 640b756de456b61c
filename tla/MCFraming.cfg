\* Messages whose size is a multiple of that of the head; data of later ones than the
\* first arrives with its last byte.
CONSTANTS
    Junk = Junk
    HeadSize = 2
    DataSizes = {0, 4, 6}
    MaxData = 4
    Kernels = {FALSE, TRUE}
    Mixed = FALSE
    Window = 2
    MaxMessages = 4
    Splits = FALSE
    Heard = TRUE
    Returns = {"zero", "negative"}
    FirstSize = 8
    Growth = 1
    MaxSize = 12
SPECIFICATION FairSpec
INVARIANTS TypeOK ContentsFaithful ReaderInStep MessagesExact
PROPERTY AllDealt
CHECK_DEADLOCK FALSE

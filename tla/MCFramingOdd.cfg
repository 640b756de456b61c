\* Messages of any size: the header of one is put at the start of the buffer.
CONSTANTS
    Junk = Junk
    HeadSize = 2
    DataSizes = {0, 1, 3}
    MaxData = 4
    Kernels = {FALSE, TRUE}
    Mixed = FALSE
    Window = 2
    MaxMessages = 4
    Splits = FALSE
    Heard = TRUE
    Returns = {"zero"}
    FirstSize = 6
    Growth = 1
    MaxSize = 16
SPECIFICATION Spec
INVARIANT ReaderInStep

\* Five timers: an erasure from the middle can leave the heap out of order, and
\* one of the last element then leaves that element in it.
CONSTANTS
    NULL = NULL
    MaxTimers = 5
    Instants = {0, 1}
    Kinds = {"moment"}
    Delays <- MCDelays
    Repeats <- MCRepeats
    HeapSize = 8
    Deletes = TRUE
    Past = FALSE
SPECIFICATION Spec
INVARIANTS ChunksConserved
CHECK_DEADLOCK FALSE

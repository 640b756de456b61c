\* Four timers: heaps of three levels, with erasures at every slot.
CONSTANTS
    NULL = NULL
    MaxTimers = 4
    Instants = {0, 1, 3}
    Kinds = {"timer", "moment"}
    Delays <- MCDelays
    Repeats <- MCRepeats
    HeapSize = 3
    Deletes = TRUE
    Past = TRUE
SPECIFICATION FairSpec
INVARIANTS HeapOrdered ChunksConserved
PROPERTIES IsAgenda NothingStaysOverdue
CHECK_DEADLOCK FALSE

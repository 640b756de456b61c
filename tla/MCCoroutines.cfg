\* Up to three coroutines in a pool that doubles from one slot to two and to four.
CONSTANTS
    NULL = NULL
    Word = {a, b}
    StackSize = 2
    InitPool = 1
    MaxPool = 4
    MaxLive = 3
    MaxDeep = 2
SPECIFICATION FairSpec
INVARIANTS TypeOK Accounted
PROPERTIES RunsPrivately EveryTurn
\* coroutine_run returns when no coroutine is left.
CHECK_DEADLOCK FALSE

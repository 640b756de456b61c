\* Three elements and two lists: lists of length 0 to 3, the length-one and
\* length-two special cases of insertion and erasure, moves between lists.
CONSTANTS
    x1 = x1  x2 = x2  x3 = x3
    ready = ready  free = free
    Item <- MCItem
    ListName <- MCListName
    NULL = NULL
SPECIFICATION FairSpec
INVARIANTS TypeOK ListsFaithful WalkExact
PROPERTY WalkEnds

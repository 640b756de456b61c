\* Three command codes in one slot, two of them with the same hash; descriptors too.
CONSTANTS
    Fd = {10, 11}
    Port = {1, 2}
    Cmd = {16, 17, 100}
    Func = {f, g}
    Entry = {e1, e2, e3, e4}
    NULL = NULL
    Garbage = Garbage
    Many = FALSE
SPECIFICATION Spec
INVARIANTS PortsServed Routed
SYMMETRY MCFuncs
\* The structures are all in use.
CHECK_DEADLOCK FALSE

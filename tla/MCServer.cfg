\* Short connections, with handlers that consume every message; or keep_alive,
\* with peers that never complete one.
CONSTANTS
    NULL = NULL
    p = p
    MaxClients = 3
    Item = {0, 1, 2}
    ListName <- MCListName
    Fd = {1, 2, 3}
    Port = {p}
    Regimes = {{}, {p}}
    Interval = 1
    ReadResults <- MCReadResults
    Completes <- MCCompletes
    Hangups = {TRUE}
    Kicks = {FALSE}
    Leftovers = {FALSE}
SPECIFICATION FairSpec
INVARIANTS TypeOK ListsFaithful ReadyFlag Ownership ClientsConserved BatchFresh LinkShutAlternate
PROPERTIES ReadyServed Reclaimed

\* Peers that the server rejects.
CONSTANTS
    NULL = NULL
    p = p
    MaxClients = 2
    Item = {0, 1}
    ListName <- MCListName
    Fd = {1, 2}
    Port = {p}
    Regimes = {{}}
    Interval = 1
    ReadResults <- AnyResult
    Completes <- AnyCompletes
    Hangups = {TRUE}
    Kicks = {FALSE}
    Leftovers = {FALSE}
SPECIFICATION Spec
INVARIANT OneClientPerSocket

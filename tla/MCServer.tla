-------------------------------- MODULE MCServer --------------------------------
(* The instance of Server that TLC checks.  What the outside world may do    *)
(* depends on whether the connection is kept alive.                          *)
EXTENDS Server
MCListName == {"free", "ready", "alive"}
MCReadResults == [kept \in BOOLEAN |-> IF kept THEN {"drained", "closed"}
                                               ELSE {"drained", "garbage"}]
MCCompletes == [kept \in BOOLEAN |-> IF kept THEN {FALSE} ELSE BOOLEAN]

\* Reads that succeed.
MCDrained == [kept \in BOOLEAN |-> {"drained"}]

\* The instance satisfies the hypothesis of the theorems about Server.
ASSUME MCSeparate == Separate
================================================================================

------------------------------ MODULE MCDoubleClose ------------------------------
(* An instance of Server in which a failed read closes a short connection.   *)
EXTENDS Server
MCListName == {"free", "ready", "alive"}
AnyResult == [kept \in BOOLEAN |-> {"drained", "closed"}]
AnyCompletes == [kept \in BOOLEAN |-> BOOLEAN]
==================================================================================

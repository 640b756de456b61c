--------------------------------- MODULE MCPorts ---------------------------------
(* The instances of Ports that TLC checks.                                   *)
EXTENDS Ports, TLC
MCFuncs == Permutations(Func)
==================================================================================

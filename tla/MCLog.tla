---------------------------------- MODULE MCLog ----------------------------------
(* The instance of Log that TLC checks.                                      *)
EXTENDS Log
==================================================================================

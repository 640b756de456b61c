------------------------------- MODULE MCDbQueue -------------------------------
(* The instances of DbQueue that TLC checks.                                 *)
EXTENDS DbQueue
================================================================================

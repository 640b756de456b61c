------------------------------ MODULE MCCoroutines ------------------------------
(* The instance of Coroutines that TLC checks.                               *)
EXTENDS Coroutines
================================================================================

-------------------------------- MODULE MCSending --------------------------------
(* The instances of Sending that TLC checks.                                 *)
EXTENDS Sending
==================================================================================

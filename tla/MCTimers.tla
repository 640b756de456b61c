-------------------------------- MODULE MCTimers --------------------------------
(* The instances of Timers that TLC checks.                                   *)
EXTENDS Timers

MCDelays  == {-2, 1}
MCRepeats == {-1, 1}
================================================================================

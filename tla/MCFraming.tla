-------------------------------- MODULE MCFraming --------------------------------
(* The instance of Framing that TLC checks: pieces and capacities are multiples *)
(* of a head's size.                                                           *)
EXTENDS Framing

ASSUME MCAligned == Aligned
================================================================================

------------------------------ MODULE MCFramingOdd ------------------------------
(* The instance of Framing with messages of any size.                          *)
EXTENDS Framing
================================================================================

----------------------------- MODULE MCLinkedLists -----------------------------
(* The instance of LinkedLists that TLC checks.                              *)
EXTENDS LinkedLists
CONSTANTS x1, x2, x3, ready, free
MCItem == {x1, x2, x3}
MCListName == {ready, free}
================================================================================

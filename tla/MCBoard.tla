------------------------------ MODULE MCBoard ------------------------------
(* Both boards and both clock sources, three EXTI lines, two of which share a vector. *)
EXTENDS BoardIo
=============================================================================

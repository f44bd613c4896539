------------------------------- MODULE MCIrRx -------------------------------
(* Model-checking instance of IrRx: two slots, three pulses, one message. *)
EXTENDS IrRx
=============================================================================

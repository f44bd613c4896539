------------------------------- MODULE MCIrTx -------------------------------
(* Model-checking instance of IrTx: widths at the limits of every tolerance. *)
EXTENDS IrTx
=============================================================================

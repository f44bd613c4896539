------------------------------ MODULE MCUartTx ------------------------------
(* Model-checking instance of UartTx. *)
EXTENDS UartTx
=============================================================================

---------------------------- MODULE MCHSoftTimer ----------------------------
(* Model-checking instance of HSoftTimer. *)
EXTENDS HSoftTimer
=============================================================================

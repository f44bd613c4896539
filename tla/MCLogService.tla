---------------------------- MODULE MCLogService ----------------------------
(* Model-checking instance of LogService. *)
EXTENDS LogService
=============================================================================

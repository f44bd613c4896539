---------------------------- MODULE MCTaskManager ----------------------------
(* Model-checking instance of TaskManager. *)
EXTENDS TaskManager
=============================================================================

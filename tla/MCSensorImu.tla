---------------------------- MODULE MCSensorImu -----------------------------
(* Model-checking instance of SensorImu: two timer entries, two messages. *)
EXTENDS SensorImu
=============================================================================

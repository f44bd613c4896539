----------------------------- MODULE MCI2cDriver -----------------------------
(* One bus, a few requests, room for two timer entries. *)
EXTENDS I2cDriver
=============================================================================
